---- MODULE Spec2Model ----
(***************************************************************************)
(* Model of the SMS import flow of the finance tracker:                    *)
(*   - parseSMSTransaction / detectDuplicateTransaction                     *)
(*     (src/src/services/aiReportGenerator.ts, imported by the modal as    *)
(*     ../services/smsParser)                                               *)
(*   - handleImport (src/src/components/SMSImportModal.tsx)                 *)
(*                                                                         *)
(* Texts are TLA+ strings and the regular expressions are evaluated        *)
(* character by character.  Amounts are decimal numbers held as integers   *)
(* in units of 1/Scale; the IEEE value NaN is the constant NaN.            *)
(***************************************************************************)
EXTENDS Integers, Sequences, FiniteSets, TLC

(***************************************************************************)
(* Numbers                                                                 *)
(***************************************************************************)
\* Amounts are held in hundredths: the SMS templates carry at most two
\* fractional digits.
Scale == 100

\* The IEEE not-a-number value; it lies outside the range of every amount
\* and balance the model can produce.
NaN == -1000000000

\* The IEEE value Infinity, above every number the model can produce.
Infinity == 1000000000

Min(S) == CHOOSE x \in S : \A y \in S : x <= y
Max(S) == CHOOSE x \in S : \A y \in S : x >= y

\* JavaScript === on numbers: NaN is equal to nothing, itself included.
StrictEq(a, b) == a # NaN /\ b # NaN /\ a = b

\* JavaScript + and - on numbers: NaN is absorbing.
NumAdd(a, b) == IF a = NaN \/ b = NaN THEN NaN ELSE a + b
NumSub(a, b) == IF a = NaN \/ b = NaN THEN NaN ELSE a - b

(***************************************************************************)
(* Characters and strings                                                  *)
(***************************************************************************)
Ch(s, i) == SubSeq(s, i, i)

Digits == {"0", "1", "2", "3", "4", "5", "6", "7", "8", "9"}
\* \s of the regular expressions and the white space String.prototype.trim
\* removes (the characters that occur in pasted messages).
Space == {" ", "\t", "\n", "\r"}
\* the characters "." of a regular expression does not match
LineTerminators == {"\n", "\r"}
\* The rupee sign U+20B9 of the patterns.  The texts of the model are ASCII
\* strings and write it "#", a character that is in none of the character
\* classes of the patterns.
RupeeSign == "#"

DigitVal(c) == CHOOSE d \in 0..9 : Ch("0123456789", d + 1) = c

\* the case mappings of the letters
LowerOf ==
  [A |-> "a", B |-> "b", C |-> "c", D |-> "d", E |-> "e", F |-> "f", G |-> "g",
   H |-> "h", I |-> "i", J |-> "j", K |-> "k", L |-> "l", M |-> "m", N |-> "n",
   O |-> "o", P |-> "p", Q |-> "q", R |-> "r", S |-> "s", T |-> "t", U |-> "u",
   V |-> "v", W |-> "w", X |-> "x", Y |-> "y", Z |-> "z"]

UpperOf ==
  [a |-> "A", b |-> "B", c |-> "C", d |-> "D", e |-> "E", f |-> "F", g |-> "G",
   h |-> "H", i |-> "I", j |-> "J", k |-> "K", l |-> "L", m |-> "M", n |-> "N",
   o |-> "O", p |-> "P", q |-> "Q", r |-> "R", s |-> "S", t |-> "T", u |-> "U",
   v |-> "V", w |-> "W", x |-> "X", y |-> "Y", z |-> "Z"]

LowerChar(c) == IF c \in DOMAIN LowerOf THEN LowerOf[c] ELSE c

UpperChar(c) == IF c \in DOMAIN UpperOf THEN UpperOf[c] ELSE c

Letters == DOMAIN LowerOf \cup DOMAIN UpperOf

RECURSIVE toLowerCase(_)
toLowerCase(s) == IF s = "" THEN "" ELSE LowerChar(Ch(s, 1)) \o toLowerCase(Tail(s))

RECURSIVE toUpperCase(_)
toUpperCase(s) == IF s = "" THEN "" ELSE UpperChar(Ch(s, 1)) \o toUpperCase(Tail(s))

\* String.prototype.trim
trim(s) ==
  LET keep == {i \in 1..Len(s) : Ch(s, i) \notin Space}
  IN  IF keep = {} THEN "" ELSE SubSeq(s, Min(keep), Max(keep))

\* String.prototype.substring(0, n)
substring0(s, n) == SubSeq(s, 1, IF Len(s) < n THEN Len(s) ELSE n)

\* the literal lit occurs in s at position i
LitAt(s, i, lit) ==
  /\ i >= 1
  /\ i + Len(lit) - 1 <= Len(s)
  /\ SubSeq(s, i, i + Len(lit) - 1) = lit

\* last position of the longest run of characters of cls that starts at p
\* (p - 1 when the run is empty): a greedy cls*
RunEnd(s, p, cls) ==
  IF p > Len(s) THEN p - 1
  ELSE Min({q \in p..(Len(s) + 1) : q = Len(s) + 1 \/ Ch(s, q) \notin cls}) - 1

\* no line terminator in s[a..b]: what ".*?" may cross
NoLineTerminator(s, a, b) == \A p \in a..b : Ch(s, p) \notin LineTerminators

\* lexicographic order on tuples of integers of equal length
RECURSIVE LexLeq(_, _)
LexLeq(a, b) ==
  IF a = <<>> THEN TRUE
  ELSE IF a[1] # b[1] THEN a[1] < b[1]
  ELSE LexLeq(Tail(a), Tail(b))

LexMin(S) == CHOOSE m \in S : \A o \in S : LexLeq(m, o)

\* The pattern table.  A debit or credit pattern is the free form
\*    app.*?(?:kw1|kw2|..).*?₹([\d,]+\.?\d*)
\* without the leading "app.*?" for the bank, whose pattern has the second,
\* strict alternative
\*    Your\s+account\s+[A-Z0-9]+\s+verb\s+(?:with\s+)?₹([\d,]+\.?\d*)
\* A merchant pattern is  (?:s1|s2|..)\s+([cls]+?)(?:\s+e1|\s+e2|..|$).
\* All patterns carry the i flag, so literals are given in lower case and
\* are compared with the lower-cased text.
AppMerchantPattern ==
  [starts |-> <<"to">>, cls |-> Letters \cup Space, ends |-> <<"on">>]

upiPatterns ==
  [phonepe |->
     [debit    |-> [app |-> "phonepe", kws |-> <<"paid", "sent">>, strict |-> ""],
      credit   |-> [app |-> "phonepe", kws |-> <<"received", "credited">>, strict |-> ""],
      merchant |-> AppMerchantPattern],
   googlepay |->
     [debit    |-> [app |-> "google pay", kws |-> <<"paid", "sent">>, strict |-> ""],
      credit   |-> [app |-> "google pay", kws |-> <<"received", "credited">>, strict |-> ""],
      merchant |-> AppMerchantPattern],
   paytm |->
     [debit    |-> [app |-> "paytm", kws |-> <<"payment", "transferred">>, strict |-> ""],
      credit   |-> [app |-> "paytm", kws |-> <<"received", "credited">>, strict |-> ""],
      merchant |-> AppMerchantPattern],
   bank |->
     [debit    |-> [app |-> "", kws |-> <<"debited", "withdrawn", "transferred">>,
                    strict |-> "debited"],
      credit   |-> [app |-> "", kws |-> <<"credited", "deposited", "received">>,
                    strict |-> "credited"],
      merchant |-> [starts |-> <<"from", "to", "at">>,
                    cls |-> Letters \cup Space \cup {"&", "."},
                    ends |-> <<"on", "reference">>]]]

\* the sources with the generic bank patterns tried first
SourceOrder_BankFirst == <<"bank", "phonepe", "googlepay", "paytm">>

\* Object.entries(upiPatterns): the keys in declaration order
SourceOrder == <<"phonepe", "googlepay", "paytm", "bank">>

\* the result of String.prototype.match: the whole match and the two groups
\* (an unset group is the empty string: both are falsy)
NoMatch == [matched |-> FALSE, g0 |-> "", g1 |-> "", g2 |-> ""]

\* positions k where "₹" is followed by at least one character of [\d,]
RupeePositions(f) ==
  {k \in 1..Len(f) : Ch(f, k) = RupeeSign /\ k + 1 <= Len(f) /\ Ch(f, k + 1) \in Digits \cup {","}}

\* last position of the capture ([\d,]+\.?\d*) that starts at position a
AmountCaptureEnd(f, a) ==
  LET e1 == RunEnd(f, a, Digits \cup {","})
      e2 == IF e1 + 1 <= Len(f) /\ Ch(f, e1 + 1) = "." THEN e1 + 1 ELSE e1
  IN  RunEnd(f, e2 + 1, Digits)

\* free form, tried at start position i: the set of <<j, n, k>> such that
\* keyword n is at j and "₹" at k, in the order backtracking tries them
\* (lazy .*? : smallest j, then the alternatives in order, then smallest k)
FreeFormAt(f, pat, i) ==
  IF ~LitAt(f, i, pat.app) THEN {}
  ELSE LET from == i + Len(pat.app)
           js   == IF pat.app = "" THEN {i} ELSE from..Len(f)
           kwAt == {jn \in js \X (1..Len(pat.kws)) :
                      /\ LitAt(f, jn[1], pat.kws[jn[2]])
                      /\ NoLineTerminator(f, from, jn[1] - 1)}
       IN  IF kwAt = {} THEN {}
           ELSE {m \in {<<jn[1], jn[2], k>> : jn \in kwAt, k \in RupeePositions(f)} :
                   /\ m[3] >= m[1] + Len(pat.kws[m[2]])
                   /\ NoLineTerminator(f, m[1] + Len(pat.kws[m[2]]), m[3] - 1)}

\* strict form, tried at start position i: the position of "₹", or 0
StrictFormAt(f, pat, i) ==
  IF pat.strict = "" \/ ~LitAt(f, i, "your") THEN 0
  ELSE LET w1 == RunEnd(f, i + 4, Space)
           w2 == RunEnd(f, w1 + 8, Space)
           x  == RunEnd(f, w2 + 1, DOMAIN UpperOf \cup Digits)
           w3 == RunEnd(f, x + 1, Space)
           w4 == RunEnd(f, w3 + 1 + Len(pat.strict), Space)
           w5 == RunEnd(f, w4 + 5, Space)
           k  == IF LitAt(f, w4 + 1, "with") /\ w5 >= w4 + 5 /\ w5 + 1 \in RupeePositions(f)
                   THEN w5 + 1 ELSE w4 + 1
       IN  IF /\ w1 >= i + 4
              /\ LitAt(f, w1 + 1, "account")
              /\ w2 >= w1 + 8
              /\ x >= w2 + 1
              /\ w3 >= x + 1
              /\ LitAt(f, w3 + 1, pat.strict)
              /\ w4 >= w3 + 1 + Len(pat.strict)
              /\ k \in RupeePositions(f)
           THEN k ELSE 0

\* The operators below hand each intermediate value of a match to the next
\* operator as a parameter, so that it is evaluated once.

\* the match record: the capture s[k+1..e] is group 1 for the free form and
\* group 2 for the strict form
AmountGroups(s, i, isFree, k, e) ==
  [matched |-> TRUE,
   g0 |-> SubSeq(s, i, e),
   g1 |-> IF isFree THEN SubSeq(s, k + 1, e) ELSE "",
   g2 |-> IF isFree THEN "" ELSE SubSeq(s, k + 1, e)]

\* the match at start position i, given the rupee position k
AmountMatchAtRupee(s, f, i, isFree, k) ==
  AmountGroups(s, i, isFree, k, AmountCaptureEnd(f, k + 1))

\* the match at start position i: the free form before the strict form
AmountMatchAt(s, f, i, free, strict) ==
  AmountMatchAtRupee(s, f, i, free # {}, IF free # {} THEN LexMin(free)[3] ELSE strict)

\* the match at the leftmost start position of starts
AmountMatchIn(s, f, pat, starts) ==
  IF starts = {} THEN NoMatch
  ELSE AmountMatchAt(s, f, Min(starts),
                     FreeFormAt(f, pat, Min(starts)), StrictFormAt(f, pat, Min(starts)))

\* the match of the pattern in s, f being s lower-cased (the i flag)
AmountMatchFolded(s, f, pat) ==
  AmountMatchIn(s, f, pat,
    {i \in 1..Len(f) : FreeFormAt(f, pat, i) # {} \/ StrictFormAt(f, pat, i) # 0})

\* text.match(pattern) for a debit or credit pattern: the leftmost start
\* position at which an alternative matches
AmountMatch(s, pat) == AmountMatchFolded(s, toLowerCase(s), pat)

\* merchant pattern tried at start position i: the set of <<n, -w, e>> such
\* that start literal n is at i, \s+ takes w characters and the capture ends
\* at e, in the order backtracking tries them (the alternatives in order,
\* greedy \s+, lazy capture)
MerchantAt(f, pat, i) ==
  UNION {
    LET a  == i + Len(pat.starts[n])
        ws == RunEnd(f, a, Space)
    IN  IF ~LitAt(f, i, pat.starts[n]) THEN {}
        ELSE UNION {
          {<<n, 0 - w, e>> : e \in {e \in (a + w)..RunEnd(f, a + w, pat.cls) :
              \/ LET v == RunEnd(f, e + 1, Space)
                 IN  v >= e + 1 /\ \E t \in 1..Len(pat.ends) : LitAt(f, v + 1, pat.ends[t])
              \/ e = Len(f)}}
          : w \in 1..(ws - a + 1)}
    : n \in 1..Len(pat.starts)}

\* position after the end literal that follows the capture ending at e (v
\* is the end of the white space after e), or e itself when the capture
\* ends the text
MerchantMatchEnd(f, pat, e, v) ==
  IF \E t \in 1..Len(pat.ends) : v >= e + 1 /\ LitAt(f, v + 1, pat.ends[t])
    THEN v + Len(pat.ends[Min({t \in 1..Len(pat.ends) : LitAt(f, v + 1, pat.ends[t])})])
    ELSE e

\* the match at start position i, m being the first <<n, -w, e>> tried
MerchantMatchAt(s, f, pat, i, m) ==
  [matched |-> TRUE,
   g0 |-> SubSeq(s, i, MerchantMatchEnd(f, pat, m[3], RunEnd(f, m[3] + 1, Space))),
   g1 |-> SubSeq(s, i + Len(pat.starts[m[1]]) - m[2], m[3]),
   g2 |-> ""]

MerchantMatchIn(s, f, pat, starts) ==
  IF starts = {} THEN NoMatch
  ELSE MerchantMatchAt(s, f, pat, Min(starts), LexMin(MerchantAt(f, pat, Min(starts))))

MerchantMatchFolded(s, f, pat) ==
  MerchantMatchIn(s, f, pat, {i \in 1..Len(f) : MerchantAt(f, pat, i) # {}})

\* text.match(pattern) for a merchant pattern
MerchantMatch(s, pat) == MerchantMatchFolded(s, toLowerCase(s), pat)

(***************************************************************************)
(* The parser                                                              *)
(***************************************************************************)
\* a || b on strings: the empty string is falsy
OrElse(a, b) == IF a # "" THEN a ELSE b

\* amountStr.replace(/,/g, '')
RECURSIVE RemoveCommas(_)
RemoveCommas(s) ==
  IF s = "" THEN ""
  ELSE (IF Ch(s, 1) = "," THEN "" ELSE Ch(s, 1)) \o RemoveCommas(Tail(s))

\* value of a string of decimal digits
RECURSIVE DecimalValue(_)
DecimalValue(ds) ==
  IF ds = "" THEN 0
  ELSE 10 * DecimalValue(SubSeq(ds, 1, Len(ds) - 1)) + DigitVal(Ch(ds, Len(ds)))

\* parseFloat on the strings cleanAmount hands it (digits and "."): the
\* longest prefix digits* [ "." digits* ] holding a digit, NaN when there is
\* none.  The value is exact for up to two fractional digits.
parseFloat(str) ==
  LET ie   == RunEnd(str, 1, Digits)
      dot  == ie + 1 <= Len(str) /\ Ch(str, ie + 1) = "."
      fe   == IF dot THEN RunEnd(str, ie + 2, Digits) ELSE ie
      frac == IF dot THEN SubSeq(str, ie + 2, fe) ELSE ""
      f2   == SubSeq(frac \o "00", 1, 2)
  IN  IF ie = 0 /\ frac = "" THEN NaN
      ELSE DecimalValue(SubSeq(str, 1, ie)) * Scale + DecimalValue(f2)

cleanAmount(amountStr) == parseFloat(RemoveCommas(amountStr))

\* the null returned by parseSMSTransaction
Null == [null |-> TRUE]

\* match ? (match[1] || match[2] || match[0]).trim() : null
TrimmedGroup(match) ==
  IF match.matched THEN <<trim(OrElse(match.g1, OrElse(match.g2, match.g0)))>> ELSE <<>>

\* string | null: <<>> is null (the pattern does not match), <<t>> the
\* string t
extractFromPattern(text, pattern) == TrimmedGroup(MerchantMatch(text, pattern))

\* the credit pattern tested before the debit pattern
Direction_CreditFirst(debitMatched, creditMatched) ==
  IF creditMatched THEN "credit" ELSE IF debitMatched THEN "debit" ELSE "none"

\* if (debitMatch) { isDebit .. } else if (creditMatch) { isCredit .. }
Direction(debitMatched, creditMatched) ==
  IF debitMatched THEN "debit" ELSE IF creditMatched THEN "credit" ELSE "none"

\* extractFromPattern(smsText, patterns.merchant) || source
MerchantOrSource(extracted, source) ==
  IF extracted = <<>> THEN source ELSE OrElse(extracted[1], source)

\* if (amountStr && (isDebit || isCredit)) { .. return {..} }: the record
\* returned, or Null when the loop goes on to the next source.  parseFloat
\* never throws, so the catch branch (continue) is never taken.
ParseAmount(smsText, source, clock, isDebit, isCredit, amountStr) ==
  IF amountStr # "" /\ (isDebit \/ isCredit)
    THEN [amount      |-> cleanAmount(amountStr),
          type        |-> IF isDebit THEN "expense" ELSE "income",
          merchant    |-> MerchantOrSource(
                            extractFromPattern(smsText, upiPatterns[source].merchant),
                            source),
          description |-> toUpperCase(source) \o " transaction",
          source      |-> "sms",
          raw_data    |-> [sms_text   |-> smsText,
                           source_app |-> source,
                           parsed_at  |-> clock]]
    ELSE Null

\* amountStr = match[1] || match[2] || '' of the pattern that gave the
\* direction
ParseDirection(smsText, source, clock, direction, debitMatch, creditMatch) ==
  ParseAmount(smsText, source, clock, direction = "debit", direction = "credit",
    IF direction = "debit" THEN OrElse(debitMatch.g1, debitMatch.g2)
    ELSE IF direction = "credit" THEN OrElse(creditMatch.g1, creditMatch.g2)
    ELSE "")

ParseMatches(smsText, source, clock, debitMatch, creditMatch) ==
  ParseDirection(smsText, source, clock,
                 Direction(debitMatch.matched, creditMatch.matched),
                 debitMatch, creditMatch)

\* one iteration of the loop over the sources, text being smsText
\* lower-cased (so that the i flag of the patterns has nothing left to fold)
ParseWithSource(smsText, text, source, clock) ==
  ParseMatches(smsText, source, clock,
               AmountMatchFolded(text, text, upiPatterns[source].debit),
               AmountMatchFolded(text, text, upiPatterns[source].credit))

\* the value of the iteration when it returns one, else the iterations left
ParseOrNext(r, rest) == IF r # Null THEN r ELSE rest

RECURSIVE ParseFrom(_, _, _, _)
ParseFrom(smsText, text, n, clock) ==
  IF n > Len(SourceOrder) THEN Null
  ELSE ParseOrNext(ParseWithSource(smsText, text, SourceOrder[n], clock),
                   ParseFrom(smsText, text, n + 1, clock))

\* parseSMSTransaction at wall-clock time clock
parseSMSTransaction(smsText, clock) == ParseFrom(smsText, toLowerCase(smsText), 1, clock)

(***************************************************************************)
(* The duplicate detector                                                  *)
(***************************************************************************)
\* const timeWindow = 5 * 60 * 1000 (milliseconds)
timeWindow == 5 * 60 * 1000

Abs(x) == IF x < 0 THEN 0 - x ELSE x

\* the predicate with the window closed at 5 minutes
IsSameTransaction_Inclusive(txn, newTxn, clock) ==
  LET timeDiff == Abs(clock - txn.created_at)
  IN  /\ StrictEq(txn.amount, newTxn.amount)
      /\ txn.type = newTxn.type
      /\ txn.merchant = newTxn.merchant
      /\ timeDiff <= timeWindow

\* the predicate handed to Array.prototype.some
IsSameTransaction(txn, newTxn, clock) ==
  LET timeDiff == Abs(clock - txn.created_at)
  IN  /\ StrictEq(txn.amount, newTxn.amount)
      /\ txn.type = newTxn.type
      /\ txn.merchant = newTxn.merchant
      /\ timeDiff < timeWindow

\* existingTransactions.some(..): stops at the first element that matches
RECURSIVE detectDuplicateTransaction(_, _, _)
detectDuplicateTransaction(newTxn, existing, clock) ==
  IF existing = <<>> THEN FALSE
  ELSE IF IsSameTransaction(Head(existing), newTxn, clock) THEN TRUE
  ELSE detectDuplicateTransaction(newTxn, Tail(existing), clock)

(***************************************************************************)
(* handleImport: the pieces between two awaits                             *)
(***************************************************************************)
\* the entries pushed to parseResults
FailedResult(sms) ==
  [sms |-> substring0(sms, 50), status |-> "failed", reason |-> "Could not parse"]

DuplicateResult(sms) ==
  [sms |-> substring0(sms, 50), status |-> "duplicate", reason |-> "Similar transaction found"]

ErrorResult(sms) ==
  [sms |-> substring0(sms, 50), status |-> "error", reason |-> "Database error"]

SuccessResult(sms, txn) ==
  [sms |-> substring0(sms, 50), status |-> "success", amount |-> txn.amount, type |-> txn.type]

\* the loop body without the duplicate check
Classify_NoDuplicateCheck(txn, existing, clock) ==
  IF txn = Null THEN "failed" ELSE "insert"

\* what the loop body does with one message before its first await:
\* "failed", "duplicate", or "insert" (go on to the store)
Classify(txn, existing, clock) ==
  IF txn = Null THEN "failed"
  ELSE IF detectDuplicateTransaction(txn, existing, clock) THEN "duplicate"
  ELSE "insert"

\* successCount++ outside the else branch
CountAfterInsert_Always(count, insertFailed) == count + 1

\* successCount after the insert returned: successCount++ in the else branch
CountAfterInsert(count, insertFailed) == IF insertFailed THEN count ELSE count + 1

\* the balance update outside the else branch
PcAfterInsert_Always(insertFailed) == "selectBalance"

\* where the handler goes after the insert returned: to the next message
\* when it failed, else to the balance update
PcAfterInsert(insertFailed) == IF insertFailed THEN "loop" ELSE "selectBalance"

\* the entry pushed after the insert returned
ResultAfterInsert(sms, txn, insertFailed) ==
  IF insertFailed THEN ErrorResult(sms) ELSE SuccessResult(sms, txn)

\* newBalance
NewBalance(currentBalance, txn) ==
  IF txn.type = "income" THEN NumAdd(currentBalance, txn.amount)
  ELSE NumSub(currentBalance, txn.amount)

\* the row the insert adds to the transactions table; created_at is set by
\* the store
TransactionRow(txn, accountId, categoryId, clock) ==
  [account_id  |-> accountId,
   amount      |-> txn.amount,
   type        |-> txn.type,
   merchant    |-> txn.merchant,
   description |-> txn.description,
   source      |-> "sms",
   raw_data    |-> txn.raw_data,
   category_id |-> categoryId,
   created_at  |-> clock]

\* .order('created_at', { ascending: false }): most recent first
RECURSIVE OrderByCreatedAtDesc(_)
OrderByCreatedAtDesc(rows) ==
  IF rows = <<>> THEN <<>>
  ELSE LET m == CHOOSE i \in 1..Len(rows) :
                  \A j \in 1..Len(rows) :
                    \/ rows[i].created_at > rows[j].created_at
                    \/ rows[i].created_at = rows[j].created_at /\ i <= j
       IN  <<rows[m]>> \o
           OrderByCreatedAtDesc(SubSeq(rows, 1, m - 1) \o SubSeq(rows, m + 1, Len(rows)))

\* .limit(100)
WindowLimit == 100

\* the rows the first query of handleImport returns
SelectSmsTransactions(table) ==
  LET sms     == SelectSeq(table, LAMBDA r : r.source = "sms")
      ordered == OrderByCreatedAtDesc(sms)
  IN  SubSeq(ordered, 1, IF Len(ordered) < WindowLimit THEN Len(ordered) ELSE WindowLimit)

(***************************************************************************)
(* State                                                                   *)
(***************************************************************************)
VARIABLES
  smsText,        \* parser run: the message handed to parseSMSTransaction
  parseResult,    \* parser run: the value returned
  parseDone,      \* parser run: parseSMSTransaction has returned
  newTransaction,       \* detector run: the freshly parsed transaction
  existingWindow,       \* detector run: the window of existing rows
  checkTime,            \* detector run: new Date().getTime() at the check
  isDuplicate,          \* detector run: the value returned
  dupDone,              \* detector run: detectDuplicateTransaction has returned
  \* the store and the clock
  transactions,   \* rows of the transactions table of the user, in insertion order
  activeAccounts, \* ids of the active accounts of the user, in the order the store returns them
  balance,        \* balance of each account
  now,            \* wall-clock time, milliseconds
  \* the component
  hasUser,        \* useAuth() holds a user
  smsList,        \* useState: the pasted messages
  loading,        \* useState
  results,        \* useState
  imported,       \* useState
  \* handleImport
  pc,                   \* position of the handler
  exit,                 \* how the try block was left: "none", "normal", "return", "throw"
  existingTransactions, \* data of the first query (<<>> when it is null)
  defaultAccountId,
  parseResults,
  successCount,
  idx,                  \* 1-based position of the for-of loop in smsList
  parsed,
  existingCategory,     \* data of the category query: <<>> (null) or <<id>>
  error,                \* error of the insert is set
  newBalance,
  \* history
  balanceAtStart,       \* balance of every account when handleImport was called
  rowsAtStart,          \* number of rows of the transactions table then
  \* the receipt scanner
  receipts,             \* rows of the receipts table, in insertion order
  scanner,              \* ReceiptScannerModal: its useState values files, loading and
                        \* results, and the position and the locals of handleScanReceipts
  \* a call of one of the exported functions
  call,                 \* the function called and its arguments
  callResult,           \* the value returned
  callDone              \* the call has returned

parseVars == <<smsText, parseResult, parseDone>>
dupVars == <<newTransaction, existingWindow, checkTime, isDuplicate, dupDone>>
storeVars == <<transactions, activeAccounts, balance, now>>
componentVars == <<hasUser, smsList, loading, results, imported>>
handlerVars == <<pc, exit, existingTransactions, defaultAccountId, parseResults,
                 successCount, idx, parsed, existingCategory, error, newBalance>>
historyVars == <<balanceAtStart, rowsAtStart>>
importVars == <<storeVars, componentVars, handlerVars, historyVars>>
callVars == <<call, callResult, callDone>>
scanVars == <<receipts, scanner>>
vars == <<parseVars, dupVars, importVars, callVars, scanVars>>

(***************************************************************************)
(* Parser runs: one message, drawn from the words of the four templates    *)
(***************************************************************************)
MaxWords == 3

Words ==
  {"PhonePe", "Google Pay", "Paytm", "paid", "received", "transferred", "debited",
   "#500", "#1,250.50", "#,", "to", "Amazon", "on", "\n"}

SampleMessages ==
  {"PhonePe: You paid #500 to Merchant Name on 5 Jan",
   "Paytm: Payment of #1,000.50 received from Ram",
   "Google Pay: #250 sent to John Doe",
   "Google Pay: You sent #250 to John Doe",
   "Your account XX1234 debited with #2,000 at Big Bazaar on 3 May",
   "Your account XX1234 credited\n#75.5 from ACME & Co. reference 991",
   "INR 500 withdrawn, fee #,,, then #12. at ATM",
   "PhonePe: received #20 cashback, paid #500 to Amazon",
   "Your OTP is 4512"}

RECURSIVE Join(_)
Join(ws) ==
  IF Len(ws) = 0 THEN ""
  ELSE IF Len(ws) = 1 THEN ws[1]
  ELSE ws[1] \o " " \o Join(Tail(ws))

ParseInputs ==
  SampleMessages \cup {Join(ws) : ws \in UNION {[1..n -> Words] : n \in 1..MaxWords}}

\* the wall-clock time of the parser runs
ParseClock == 0

ParseIdle == smsText = "" /\ parseResult = Null /\ parseDone = FALSE

ParseInit == smsText \in ParseInputs /\ parseResult = Null /\ parseDone = FALSE

Parse ==
  /\ ~parseDone
  /\ parseResult' = parseSMSTransaction(smsText, ParseClock)
  /\ parseDone' = TRUE
  /\ UNCHANGED <<smsText, dupVars, importVars, callVars, scanVars>>

(***************************************************************************)
(* Detector runs: one new transaction against a window of existing rows    *)
(***************************************************************************)
MaxWindow == 2

DupClock == 10 * timeWindow

NewTransactions ==
  {[amount      |-> a,
    type        |-> "expense",
    merchant    |-> "Amazon",
    description |-> "PHONEPE transaction",
    source      |-> "sms",
    raw_data    |-> [sms_text |-> "PhonePe: You paid #500 to Amazon",
                     source_app |-> "phonepe",
                     parsed_at |-> t]] :
     a \in {500 * Scale, NaN}, t \in {DupClock, DupClock - timeWindow}}

ExistingRows ==
  [amount     : {500 * Scale, 500 * Scale + 50},
   type       : {"expense", "income"},
   merchant   : {"Amazon", "amazon"},
   created_at : {DupClock - timeWindow, DupClock - timeWindow + 1, DupClock,
                 DupClock + timeWindow - 1, DupClock + timeWindow}]

DupIdle ==
  /\ newTransaction = Null
  /\ existingWindow = <<>>
  /\ checkTime = 0
  /\ isDuplicate = FALSE
  /\ dupDone = FALSE

DupInit ==
  /\ newTransaction \in NewTransactions
  /\ existingWindow \in UNION {[1..n -> ExistingRows] : n \in 0..MaxWindow}
  /\ checkTime = DupClock
  /\ isDuplicate = FALSE
  /\ dupDone = FALSE

DetectDuplicate ==
  /\ ~dupDone
  /\ isDuplicate' = detectDuplicateTransaction(newTransaction, existingWindow, checkTime)
  /\ dupDone' = TRUE
  /\ UNCHANGED <<newTransaction, existingWindow, checkTime, parseVars, importVars, callVars,
                 scanVars>>

(***************************************************************************)
(* Import runs: one call of handleImport on a pasted batch                 *)
(***************************************************************************)
MaxBatch == 2
MaxTicks == 1

StartTime == 10 * timeWindow

AccountIds == {"acc1", "acc2"}

FirstMessage == "PhonePe: You paid #500 to Amazon on 5 Jan. UPI Ref 4021 7733"

ImportMessages ==
  {FirstMessage,
   "Paytm: received #1,250.50",
   "Your OTP is 4512"}

\* a row an earlier import of the first message left in the table
EarlierRow(createdAt) ==
  [account_id  |-> "acc1",
   amount      |-> 500 * Scale,
   type        |-> "expense",
   merchant    |-> "Amazon",
   description |-> "PHONEPE transaction",
   source      |-> "sms",
   raw_data    |-> [sms_text   |-> FirstMessage,
                    source_app |-> "phonepe",
                    parsed_at  |-> createdAt],
   category_id |-> <<>>,
   created_at  |-> createdAt]

InitialTables ==
  {<<>>, <<EarlierRow(StartTime - 1)>>, <<EarlierRow(StartTime - timeWindow)>>}

\* the categories table: .eq('type', type).eq('is_system', true).limit(1)
\* .maybeSingle() on a store that holds a system category for income and
\* none for expense
SystemCategory(type) == IF type = "income" THEN <<"cat-income">> ELSE <<>>

\* the outcomes of a call of the store: it returns data, it returns an
\* error value (data is null), or the awaited promise rejects
Outcomes == {"data", "error", "throw"}

ImportIdle ==
  /\ transactions = <<>>
  /\ activeAccounts = <<>>
  /\ balance = [a \in AccountIds |-> 0]
  /\ now = 0
  /\ hasUser = FALSE
  /\ smsList = <<>>
  /\ loading = FALSE
  /\ results = <<>>
  /\ imported = 0
  /\ pc = "idle"
  /\ exit = "none"
  /\ existingTransactions = <<>>
  /\ defaultAccountId = ""
  /\ parseResults = <<>>
  /\ successCount = 0
  /\ idx = 0
  /\ parsed = Null
  /\ existingCategory = <<>>
  /\ error = FALSE
  /\ newBalance = 0
  /\ balanceAtStart = [a \in AccountIds |-> 0]
  /\ rowsAtStart = 0

ImportInit ==
  /\ transactions \in InitialTables
  /\ activeAccounts \in {<<>>, <<"acc1", "acc2">>}
  /\ balance = [a \in AccountIds |-> 1000 * Scale]
  /\ now = StartTime
  /\ hasUser \in BOOLEAN
  /\ smsList \in UNION {[1..n -> ImportMessages] : n \in 0..MaxBatch}
  /\ loading = FALSE
  /\ results = <<>>
  /\ imported = 0
  /\ pc = "idle"
  /\ exit = "none"
  /\ existingTransactions = <<>>
  /\ defaultAccountId = ""
  /\ parseResults = <<>>
  /\ successCount = 0
  /\ idx = 0
  /\ parsed = Null
  /\ existingCategory = <<>>
  /\ error = FALSE
  /\ newBalance = 0
  /\ balanceAtStart = balance
  /\ rowsAtStart = Len(transactions)

\* time passes while the handler waits; the clock is read at the head of the
\* loop body (parsed_at, the duplicate check) and by the store at the insert
\* (created_at), so time that passes elsewhere is seen at these two points
Tick ==
  /\ pc \in {"loop", "insert"}
  /\ idx <= Len(smsList)
  /\ now < StartTime + MaxTicks * timeWindow
  /\ now' = now + timeWindow
  /\ UNCHANGED <<parseVars, dupVars, callVars, scanVars, transactions, activeAccounts, balance, componentVars, handlerVars,
                 historyVars>>

\* if (!user || smsList.length === 0) return; setLoading(true);
HandleImport ==
  /\ pc = "idle"
  /\ IF ~hasUser \/ Len(smsList) = 0
       THEN pc' = "done" /\ UNCHANGED loading
       ELSE pc' = "selectTransactions" /\ loading' = TRUE
  /\ balanceAtStart' = balance
  /\ rowsAtStart' = Len(transactions)
  /\ UNCHANGED <<parseVars, dupVars, callVars, scanVars, storeVars, hasUser, smsList, results, imported, exit,
                 existingTransactions, defaultAccountId, parseResults, successCount,
                 idx, parsed, existingCategory, error, newBalance>>

\* a finally block that leaves loading as it is
Finally_KeepsLoading ==
  /\ UNCHANGED loading
  /\ pc' = "done"

\* finally { setLoading(false) }: the handler is left
Finally ==
  /\ loading' = FALSE
  /\ pc' = "done"

\* the awaited promise rejects: catch (error) { console.error(..); alert(..) }
\* and the finally block run before the handler yields again
Throw ==
  /\ exit' = "throw"
  /\ Finally

\* the end of the loop body: its block-scoped constants parsed,
\* existingCategory and newBalance go out of scope
EndOfBody ==
  /\ parsed' = Null
  /\ existingCategory' = <<>>
  /\ newBalance' = 0

\* const { data: existingTransactions } = await supabase.from('transactions')...
SelectTransactions ==
  /\ pc = "selectTransactions"
  /\ \E o \in Outcomes :
       \/ /\ o = "data"
          /\ existingTransactions' = SelectSmsTransactions(transactions)
          /\ pc' = "selectAccounts"
          /\ UNCHANGED <<exit, loading>>
       \/ /\ o = "error"
          /\ existingTransactions' = <<>>
          /\ pc' = "selectAccounts"
          /\ UNCHANGED <<exit, loading>>
       \/ /\ o = "throw"
          /\ Throw
          /\ UNCHANGED existingTransactions
  /\ UNCHANGED <<parseVars, dupVars, callVars, scanVars, storeVars, hasUser, smsList, results, imported, historyVars,
                 defaultAccountId, parseResults, successCount, idx, parsed, existingCategory,
                 error, newBalance>>

\* const { data: accounts } = await supabase.from('accounts')... up to the
\* head of the loop
SelectAccounts ==
  /\ pc = "selectAccounts"
  /\ \E o \in Outcomes :
       \/ /\ o = "data"
          /\ activeAccounts # <<>>
          /\ defaultAccountId' = activeAccounts[1]
          /\ parseResults' = <<>>
          /\ successCount' = 0
          /\ idx' = 1
          /\ pc' = "loop"
          /\ UNCHANGED <<exit, loading>>
       \/ /\ o = "error" \/ (o = "data" /\ activeAccounts = <<>>)
          /\ exit' = "return"
          /\ Finally
          /\ UNCHANGED <<defaultAccountId, parseResults, successCount, idx>>
       \/ /\ o = "throw"
          /\ Throw
          /\ UNCHANGED <<defaultAccountId, parseResults, successCount, idx>>
  /\ UNCHANGED <<parseVars, dupVars, callVars, scanVars, storeVars, hasUser, smsList, results, imported, historyVars,
                 existingTransactions, parsed, existingCategory, error, newBalance>>

\* the head of the for-of loop and the body up to its first await; after
\* the last message setResults(parseResults); setImported(successCount)
Loop ==
  /\ pc = "loop"
  /\ IF idx > Len(smsList)
       THEN /\ results' = parseResults
            /\ imported' = successCount
            /\ exit' = "normal"
            /\ Finally
            /\ UNCHANGED <<parsed, parseResults, idx>>
       ELSE LET sms == smsList[idx]
                txn == parseSMSTransaction(sms, now)
                c   == Classify(txn, existingTransactions, now)
            IN  /\ \/ /\ c = "failed"
                      /\ parseResults' = Append(parseResults, FailedResult(sms))
                      /\ idx' = idx + 1
                      /\ pc' = "loop"
                      /\ parsed' = Null
                   \/ /\ c = "duplicate"
                      /\ parseResults' = Append(parseResults, DuplicateResult(sms))
                      /\ idx' = idx + 1
                      /\ pc' = "loop"
                      /\ parsed' = Null
                   \/ /\ c = "insert"
                      /\ parsed' = txn
                      /\ pc' = "selectCategory"
                      /\ UNCHANGED <<parseResults, idx>>
                /\ UNCHANGED <<results, imported, exit, loading>>
  /\ UNCHANGED <<parseVars, dupVars, callVars, scanVars, storeVars, hasUser, smsList, historyVars, existingTransactions,
                 defaultAccountId, successCount, existingCategory, error, newBalance>>

\* const { data: existingCategory } = await supabase.from('categories')...
SelectCategory ==
  /\ pc = "selectCategory"
  /\ \E o \in Outcomes :
       \/ /\ o = "data"
          /\ existingCategory' = SystemCategory(parsed.type)
          /\ pc' = "insert"
          /\ UNCHANGED <<exit, loading>>
       \/ /\ o = "error"
          /\ existingCategory' = <<>>
          /\ pc' = "insert"
          /\ UNCHANGED <<exit, loading>>
       \/ /\ o = "throw"
          /\ Throw
          /\ UNCHANGED existingCategory
  /\ UNCHANGED <<parseVars, dupVars, callVars, scanVars, storeVars, hasUser, smsList, results, imported, historyVars,
                 existingTransactions,
                 defaultAccountId, parseResults, successCount, idx, parsed, error,
                 newBalance>>

\* const { error } = await supabase.from('transactions').insert(..) and the
\* if (error) .. else .. up to the next await
InsertTransaction ==
  /\ pc = "insert"
  /\ \E o \in Outcomes :
       \/ /\ o \in {"data", "error"}
          /\ error' = (o = "error")
          /\ transactions' =
               IF o = "data"
                 THEN Append(transactions,
                             TransactionRow(parsed, defaultAccountId, existingCategory, now))
                 ELSE transactions
          /\ successCount' = CountAfterInsert(successCount, o = "error")
          /\ parseResults' =
               Append(parseResults, ResultAfterInsert(smsList[idx], parsed, o = "error"))
          /\ pc' = PcAfterInsert(o = "error")
          /\ IF pc' = "loop"
               THEN idx' = idx + 1 /\ EndOfBody
               ELSE UNCHANGED <<idx, parsed, existingCategory, newBalance>>
          /\ UNCHANGED <<exit, loading>>
       \/ /\ o = "throw"
          /\ Throw
          /\ UNCHANGED <<error, transactions, successCount, parseResults, idx, parsed,
                         existingCategory, newBalance>>
  /\ UNCHANGED <<parseVars, dupVars, callVars, scanVars, activeAccounts, balance, now, hasUser, smsList, results,
                 imported, historyVars, existingTransactions, defaultAccountId>>

\* const { data: accountData } = await supabase.from('accounts').select('balance')
\* and if (accountData) { .. newBalance .. } up to the next await
SelectBalance ==
  /\ pc = "selectBalance"
  /\ \E o \in Outcomes :
       \/ /\ o = "data"
          /\ newBalance' = NewBalance(balance[defaultAccountId], parsed)
          /\ pc' = "updateBalance"
          /\ UNCHANGED <<idx, exit, loading, parsed, existingCategory>>
       \/ /\ o = "error"
          /\ idx' = idx + 1
          /\ pc' = "loop"
          /\ EndOfBody
          /\ UNCHANGED <<exit, loading>>
       \/ /\ o = "throw"
          /\ Throw
          /\ UNCHANGED <<newBalance, idx, parsed, existingCategory>>
  /\ UNCHANGED <<parseVars, dupVars, callVars, scanVars, storeVars, hasUser, smsList, results, imported, historyVars,
                 existingTransactions,
                 defaultAccountId, parseResults, successCount, error>>

\* await supabase.from('accounts').update({ balance: newBalance }); its
\* error is not looked at
UpdateBalance ==
  /\ pc = "updateBalance"
  /\ \E o \in Outcomes :
       \/ /\ o = "data"
          /\ balance' = [balance EXCEPT ![defaultAccountId] = newBalance]
          /\ idx' = idx + 1
          /\ pc' = "loop"
          /\ EndOfBody
          /\ UNCHANGED <<exit, loading>>
       \/ /\ o = "error"
          /\ idx' = idx + 1
          /\ pc' = "loop"
          /\ EndOfBody
          /\ UNCHANGED <<balance, exit, loading>>
       \/ /\ o = "throw"
          /\ Throw
          /\ UNCHANGED <<balance, idx, parsed, existingCategory, newBalance>>
  /\ UNCHANGED <<parseVars, dupVars, callVars, scanVars, transactions, activeAccounts, now, hasUser, smsList, results,
                 imported, historyVars,
                 existingTransactions, defaultAccountId, parseResults, successCount,
                 error>>

(***************************************************************************)
(* Scan runs: one call of handleScanReceipts on the selected files         *)
(***************************************************************************)
MaxFiles == 2

FileNames == {"a.jpg", "b.jpg"}

\* simulateOCR: the same receipt for every file; date is the UTC day of the
\* call (new Date().toISOString().split('T')[0]), held as a day number
simulateOCR(file, clock) ==
  [merchant   |-> "Detected Merchant",
   amount     |-> "250.00",
   date       |-> clock \div 86400000,
   items      |-> <<"Item 1", "Item 2", "Item 3">>,
   confidence |-> 85]

\* the row the insert adds to the receipts table; id is set by the store
ReceiptRow(file, ocr, id) ==
  [id              |-> id,
   image_url       |-> "receipt-" \o file,
   parsed_merchant |-> ocr.merchant,
   parsed_amount   |-> parseFloat(ocr.amount),
   parsed_date     |-> ocr.date,
   parsed_items    |-> ocr.items,
   ocr_raw         |-> [confidence |-> ocr.confidence, file_name |-> file],
   processed       |-> TRUE]

\* the row the insert adds to the transactions table; created_at is set by
\* the store
ReceiptTransactionRow(ocr, accountId, receiptId, categoryId, clock) ==
  [account_id       |-> accountId,
   receipt_id       |-> receiptId,
   amount           |-> parseFloat(ocr.amount),
   type             |-> "expense",
   merchant         |-> ocr.merchant,
   description      |-> "Receipt: Item 1, Item 2, Item 3",
   transaction_date |-> ocr.date,
   source           |-> "ocr",
   category_id      |-> categoryId,
   raw_data         |-> [ocr_confidence |-> ocr.confidence],
   created_at       |-> clock]

\* the categories table: .eq('name', 'Food & Dining').eq('is_system', true)
\* .maybeSingle() on a store that holds that category
FoodCategory == <<"cat-food">>

ReceiptErrorResult(file) ==
  [file |-> file, status |-> "error", reason |-> "Failed to save receipt"]

TransactionErrorResult(file) ==
  [file |-> file, status |-> "error", reason |-> "Failed to create transaction"]

ScanSuccessResult(file, ocr) ==
  [file |-> file, status |-> "success", merchant |-> ocr.merchant,
   amount |-> ocr.amount, confidence |-> ocr.confidence]

\* currentBalance - parseFloat(parsed.amount)
BalanceAfterReceipt(currentBalance, ocr) == NumSub(currentBalance, parseFloat(ocr.amount))

\* the component before files are selected
ScannerIdleState ==
  [files |-> <<>>, loading |-> FALSE, results |-> <<>>, pc |-> "idle", exit |-> "none",
   defaultAccountId |-> "", scanResults |-> <<>>, idx |-> 0, parsed |-> Null,
   receipt |-> <<>>, existingCategory |-> <<>>, newBalance |-> 0]

ScanIdle == receipts = <<>> /\ scanner = ScannerIdleState

\* the files are selected and the button has not been pressed
ScanInit ==
  /\ receipts = <<>>
  /\ scanner \in {[ScannerIdleState EXCEPT !.files = f] :
                    f \in UNION {[1..n -> FileNames] : n \in 0..MaxFiles}}

\* finally { setLoading(false) }: the handler is left
ScanFinally(state, how) == [state EXCEPT !.exit = how, !.loading = FALSE, !.pc = "done"]

\* the awaited promise rejects: catch (error) { console.error(..); alert(..) }
\* and the finally block
ScanThrow == scanner' = ScanFinally(scanner, "throw")

\* the end of the loop body, after scanResults.push(result): the next file;
\* the block-scoped constants go out of scope
NextFile(state, result) ==
  [state EXCEPT !.scanResults = Append(@, result), !.idx = @ + 1, !.pc = "loop",
                !.parsed = Null, !.receipt = <<>>, !.existingCategory = <<>>,
                !.newBalance = 0]

\* if (!user || files.length === 0) return; setLoading(true);
HandleScanReceipts ==
  /\ scanner.pc = "idle"
  /\ scanner' =
       IF ~hasUser \/ Len(scanner.files) = 0 THEN [scanner EXCEPT !.pc = "done"]
       ELSE [scanner EXCEPT !.loading = TRUE, !.pc = "selectAccounts"]
  /\ UNCHANGED <<parseVars, dupVars, callVars, importVars, receipts>>

\* const { data: accounts } = await supabase.from('accounts')... up to the
\* head of the loop
ScanSelectAccounts ==
  /\ scanner.pc = "selectAccounts"
  /\ \E o \in Outcomes :
       \/ /\ o = "data"
          /\ activeAccounts # <<>>
          /\ scanner' = [scanner EXCEPT !.defaultAccountId = activeAccounts[1],
                                        !.scanResults = <<>>, !.idx = 1, !.pc = "loop"]
       \/ /\ o = "error" \/ (o = "data" /\ activeAccounts = <<>>)
          /\ scanner' = ScanFinally(scanner, "return")
       \/ /\ o = "throw"
          /\ ScanThrow
  /\ UNCHANGED <<parseVars, dupVars, callVars, importVars, receipts>>

\* the head of the for-of loop and simulateOCR(file); after the last file
\* setResults(scanResults)
ScanLoop ==
  /\ scanner.pc = "loop"
  /\ scanner' =
       IF scanner.idx > Len(scanner.files)
         THEN ScanFinally([scanner EXCEPT !.results = scanner.scanResults], "normal")
         ELSE [scanner EXCEPT !.parsed = simulateOCR(scanner.files[scanner.idx], now),
                              !.pc = "insertReceipt"]
  /\ UNCHANGED <<parseVars, dupVars, callVars, importVars, receipts>>

\* if (uploadError || !receipt) { scanResults.push(..); continue; }
AfterReceipt(state, file, saved) ==
  IF saved THEN [state EXCEPT !.receipt = <<Len(receipts) + 1>>, !.pc = "selectCategory"]
  ELSE NextFile(state, ReceiptErrorResult(file))

\* const { data: receipt, error: uploadError } = await supabase
\* .from('receipts').insert(..).select().maybeSingle()
InsertReceipt ==
  /\ scanner.pc = "insertReceipt"
  /\ \E o \in Outcomes :
       \/ /\ o = "data"
          /\ receipts' = Append(receipts,
                                ReceiptRow(scanner.files[scanner.idx], scanner.parsed,
                                           Len(receipts) + 1))
          /\ scanner' = AfterReceipt(scanner, scanner.files[scanner.idx], TRUE)
       \/ /\ o = "error"
          /\ scanner' = AfterReceipt(scanner, scanner.files[scanner.idx], FALSE)
          /\ UNCHANGED receipts
       \/ /\ o = "throw"
          /\ ScanThrow
          /\ UNCHANGED receipts
  /\ UNCHANGED <<parseVars, dupVars, callVars, importVars>>

\* const { data: existingCategory } = await supabase.from('categories')...
ScanSelectCategory ==
  /\ scanner.pc = "selectCategory"
  /\ \E o \in Outcomes :
       \/ /\ o = "data"
          /\ scanner' = [scanner EXCEPT !.existingCategory = FoodCategory, !.pc = "insert"]
       \/ /\ o = "error"
          /\ scanner' = [scanner EXCEPT !.existingCategory = <<>>, !.pc = "insert"]
       \/ /\ o = "throw"
          /\ ScanThrow
  /\ UNCHANGED <<parseVars, dupVars, callVars, importVars, receipts>>

\* const { error: txnError } = await supabase.from('transactions').insert(..)
\* and the if (txnError) branch
ScanInsertTransaction ==
  /\ scanner.pc = "insert"
  /\ \E o \in Outcomes :
       \/ /\ o = "data"
          /\ transactions' =
               Append(transactions,
                      ReceiptTransactionRow(scanner.parsed, scanner.defaultAccountId,
                                            scanner.receipt[1], scanner.existingCategory, now))
          /\ scanner' = [scanner EXCEPT !.pc = "selectBalance"]
       \/ /\ o = "error"
          /\ scanner' = NextFile(scanner, TransactionErrorResult(scanner.files[scanner.idx]))
          /\ UNCHANGED transactions
       \/ /\ o = "throw"
          /\ ScanThrow
          /\ UNCHANGED transactions
  /\ UNCHANGED <<parseVars, dupVars, callVars, activeAccounts, balance, now, componentVars,
                 handlerVars, historyVars, receipts>>

\* const { data: accountData } = await supabase.from('accounts').select('balance')
\* and if (accountData) { .. newBalance .. } up to the next await; without
\* accountData the success is pushed at once
ScanSelectBalance ==
  /\ scanner.pc = "selectBalance"
  /\ \E o \in Outcomes :
       \/ /\ o = "data"
          /\ scanner' =
               [scanner EXCEPT
                  !.newBalance = BalanceAfterReceipt(balance[scanner.defaultAccountId],
                                                     scanner.parsed),
                  !.pc = "updateBalance"]
       \/ /\ o = "error"
          /\ scanner' = NextFile(scanner,
                                 ScanSuccessResult(scanner.files[scanner.idx], scanner.parsed))
       \/ /\ o = "throw"
          /\ ScanThrow
  /\ UNCHANGED <<parseVars, dupVars, callVars, importVars, receipts>>

\* await supabase.from('accounts').update({ balance: newBalance }); its
\* error is not looked at; scanResults.push({ .. status: 'success' .. })
ScanUpdateBalance ==
  /\ scanner.pc = "updateBalance"
  /\ \E o \in Outcomes :
       \/ /\ o = "data"
          /\ balance' = [balance EXCEPT ![scanner.defaultAccountId] = scanner.newBalance]
          /\ scanner' = NextFile(scanner,
                                 ScanSuccessResult(scanner.files[scanner.idx], scanner.parsed))
       \/ /\ o = "error"
          /\ scanner' = NextFile(scanner,
                                 ScanSuccessResult(scanner.files[scanner.idx], scanner.parsed))
          /\ UNCHANGED balance
       \/ /\ o = "throw"
          /\ ScanThrow
          /\ UNCHANGED balance
  /\ UNCHANGED <<parseVars, dupVars, callVars, transactions, activeAccounts, now, componentVars,
                 handlerVars, historyVars, receipts>>

(***************************************************************************)
(* Calls of the exported pure functions                                    *)
(***************************************************************************)
NoCall == [fn |-> "none"]

CallIdle == call = NoCall /\ callResult = Null /\ callDone = FALSE

\* the state before the call of one of calls
CallInit(calls) == call \in calls /\ callResult = Null /\ callDone = FALSE

\* the call of fn returns value
Return(fn, value) ==
  /\ ~callDone
  /\ call.fn = fn
  /\ callResult' = value
  /\ callDone' = TRUE
  /\ UNCHANGED <<call, parseVars, dupVars, importVars, scanVars>>

\* the call of fn has returned
Returned(fn) == callDone /\ call.fn = fn

(***************************************************************************)
(* parseMultipleSMS                                                        *)
(***************************************************************************)
\* a filter that keeps every element
KeepParsed_All(txn) == TRUE

\* .filter((txn) => txn !== null)
KeepParsed(txn) == txn # Null

\* smsList.map(parseSMSTransaction)
RECURSIVE MapParse(_, _)
MapParse(list, clock) ==
  IF list = <<>> THEN <<>>
  ELSE <<parseSMSTransaction(Head(list), clock)>> \o MapParse(Tail(list), clock)

parseMultipleSMS(list, clock) == SelectSeq(MapParse(list, clock), KeepParsed)

MaxList == 3

ListMessages ==
  {"PhonePe: You paid #500 to Amazon on 5 Jan",
   "Paytm: received #1,250.50",
   "Your OTP is 4512",
   "PhonePe paid #,"}

ParseMultipleCalls ==
  {[fn |-> "parseMultipleSMS", smsList |-> l] :
     l \in UNION {[1..n -> ListMessages] : n \in 0..MaxList}}

ParseMultipleSMS ==
  /\ call.fn = "parseMultipleSMS"
  /\ Return("parseMultipleSMS", parseMultipleSMS(call.smsList, ParseClock))

\* Exact quotients.  A number that is the quotient of two amounts
\* (estimateDailyBudget, predictFutureSpending) is held as a fraction num/den
\* in lowest terms
\* with den >= 0; den = 0 holds the IEEE values Infinity (num 1), -Infinity
\* (num -1) and NaN (num 0).  The sign of a zero is not kept.
RECURSIVE GCD(_, _)
GCD(a, b) == IF b = 0 THEN a ELSE GCD(b, a % b)

Sign(n) == IF n > 0 THEN 1 ELSE IF n < 0 THEN 0 - 1 ELSE 0

\* the fraction n/d for d >= 0
Fraction(n, d) ==
  IF d = 0 THEN [num |-> Sign(n), den |-> 0]
  ELSE [num |-> n \div GCD(Abs(n), d), den |-> d \div GCD(Abs(n), d)]

FractionNaN == [num |-> 0, den |-> 0]

Whole(n) == [num |-> n, den |-> 1]

FracNeg(a) == [num |-> 0 - a.num, den |-> a.den]

FracAdd(a, b) ==
  IF a.den = 0 /\ b.den = 0
    THEN (IF a.num = b.num THEN a ELSE FractionNaN)
  ELSE Fraction(a.num * b.den + b.num * a.den, a.den * b.den)

FracSub(a, b) == FracAdd(a, FracNeg(b))

FracMul(a, b) == Fraction(a.num * b.num, a.den * b.den)

FracDiv(a, b) ==
  IF b.num < 0 THEN Fraction(0 - a.num * b.den, 0 - a.den * b.num)
  ELSE Fraction(a.num * b.den, a.den * b.num)

\* JavaScript > on these numbers: no comparison with NaN holds
FracGreater(a, b) ==
  /\ a # FractionNaN
  /\ b # FractionNaN
  /\ a.num * b.den > b.num * a.den

(***************************************************************************)
(* Budget heuristics.  Numbers with a fraction (percentages, amounts) are  *)
(* integers counting hundredths; NumberToString and toFixed0 give the      *)
(* decimal text JavaScript prints.                                         *)
(***************************************************************************)
\* String(n) for a natural number n
RECURSIVE NumberToString(_)
NumberToString(n) ==
  IF n < 10 THEN Ch("0123456789", n + 1)
  ELSE NumberToString(n \div 10) \o Ch("0123456789", (n % 10) + 1)

\* x.toFixed(0) for x = h hundredths: the nearest integer, a half rounded
\* away from zero, the sign kept; NaN and Infinity print their names
toFixed0(h) ==
  IF h = NaN THEN "NaN"
  ELSE IF h = Infinity THEN "Infinity"
  ELSE IF h < 0 THEN "-" \o NumberToString(((0 - h) + Scale \div 2) \div Scale)
  ELSE NumberToString((h + Scale \div 2) \div Scale)

\* a level whose thresholds are exclusive
getAlertLevel_Exclusive(percentage) ==
  IF percentage > 100 * Scale THEN "danger"
  ELSE IF percentage > 80 * Scale THEN "warning"
  ELSE "safe"

getAlertLevel(percentage) ==
  IF percentage >= 100 * Scale THEN "danger"
  ELSE IF percentage >= 80 * Scale THEN "warning"
  ELSE "safe"

getAlertMessage(percentage, budgetName) ==
  IF percentage >= 100 * Scale
    THEN "\"" \o budgetName \o "\" budget exceeded! You've spent "
         \o toFixed0(percentage) \o "% of your limit."
  ELSE IF percentage >= 80 * Scale
    THEN "\"" \o budgetName \o "\" budget is at " \o toFixed0(percentage)
         \o "% of limit. Only " \o toFixed0(100 * Scale - percentage) \o "% remaining."
  ELSE "\"" \o budgetName \o "\" budget usage: " \o toFixed0(percentage) \o "% of limit."

\* percentages around the two thresholds and around the halves toFixed rounds
Percentages ==
  {0, 50 * Scale, 79 * Scale + 50, 79 * Scale + 99, 80 * Scale, 80 * Scale + 1,
   85 * Scale, 99 * Scale + 50, 99 * Scale + 99, 100 * Scale, 100 * Scale + 1,
   150 * Scale}

BudgetNames == {"Food", "Rent"}

AlertLevelCalls == {[fn |-> "getAlertLevel", percentage |-> p] : p \in Percentages}

AlertMessageCalls ==
  {[fn |-> "getAlertMessage", percentage |-> p, budgetName |-> b] :
     p \in Percentages, b \in BudgetNames}

GetAlertLevel ==
  /\ call.fn = "getAlertLevel"
  /\ Return("getAlertLevel", getAlertLevel(call.percentage))

GetAlertMessage ==
  /\ call.fn = "getAlertMessage"
  /\ Return("getAlertMessage", getAlertMessage(call.percentage, call.budgetName))

\* (budget.spent / budget.amount) * 100 in hundredths, cut below the
\* hundredth: the comparisons with whole percentages are those of the
\* quotient
calculateBudgetPercentage(budget) ==
  IF budget.amount = 0 THEN (IF budget.spent = 0 THEN NaN ELSE Infinity)
  ELSE (budget.spent * 100 * Scale) \div budget.amount

\* the entry prioritizeBudgets maps a budget to
PrioritizedBudget(budget) ==
  LET percentage == calculateBudgetPercentage(budget)
  IN  IF percentage >= 100 * Scale
        THEN [budget |-> budget, priority |-> 1, reason |-> "Exceeded budget limit"]
      ELSE IF percentage >= 90 * Scale
        THEN [budget |-> budget, priority |-> 2, reason |-> "Critical - nearing limit"]
      ELSE IF percentage >= 75 * Scale
        THEN [budget |-> budget, priority |-> 3, reason |-> "Warning - approaching limit"]
      ELSE [budget |-> budget, priority |-> 4, reason |-> "On track"]

RECURSIVE MapPrioritized(_)
MapPrioritized(budgets) ==
  IF budgets = <<>> THEN <<>>
  ELSE <<PrioritizedBudget(Head(budgets))>> \o MapPrioritized(Tail(budgets))

\* a comparator that puts the largest priority number first
ComparePriority_Descending(a, b) == b.priority - a.priority

\* (a, b) => a.priority - b.priority
ComparePriority(a, b) == a.priority - b.priority

\* x put into the sorted sequence behind every entry that does not compare
\* greater than it
InsertSorted(sorted, x) ==
  LET before == {k \in 0..Len(sorted) : \A j \in 1..k : ComparePriority(sorted[j], x) <= 0}
      k      == Max(before)
  IN  SubSeq(sorted, 1, k) \o <<x>> \o SubSeq(sorted, k + 1, Len(sorted))

\* Array.prototype.sort with the comparator: a stable sort
RECURSIVE SortByPriority(_)
SortByPriority(entries) ==
  IF entries = <<>> THEN <<>>
  ELSE InsertSorted(SortByPriority(SubSeq(entries, 1, Len(entries) - 1)),
                    entries[Len(entries)])

prioritizeBudgets(budgets) == SortByPriority(MapPrioritized(budgets))

MaxBudgets == 3

\* budgets on both sides of the thresholds 75, 90 and 100 percent
Budgets ==
  {[id |-> "b1", name |-> "Food", spent |-> 500, amount |-> 1000],
   [id |-> "b2", name |-> "Rent", spent |-> 1499, amount |-> 2000],
   [id |-> "b3", name |-> "Fuel", spent |-> 750, amount |-> 1000],
   [id |-> "b4", name |-> "Fun", spent |-> 2699, amount |-> 3000],
   [id |-> "b5", name |-> "Gym", spent |-> 900, amount |-> 1000],
   [id |-> "b6", name |-> "Books", spent |-> 999, amount |-> 1000],
   [id |-> "b7", name |-> "Travel", spent |-> 1000, amount |-> 1000],
   [id |-> "b8", name |-> "Gifts", spent |-> 1100, amount |-> 1000]}

\* budgets whose amount is 0
ZeroBudgets ==
  {[id |-> "z1", name |-> "Pets", spent |-> 0, amount |-> 0],
   [id |-> "z2", name |-> "Misc", spent |-> 50, amount |-> 0]}

PrioritizeCalls ==
  {[fn |-> "prioritizeBudgets", budgets |-> l] :
     l \in UNION {[1..n -> Budgets] : n \in 0..MaxBudgets}}
  \cup
  {[fn |-> "prioritizeBudgets", budgets |-> l] :
     l \in UNION {[1..n -> ZeroBudgets \cup {b \in Budgets : b.id = "b1"}] : n \in 1..2}}

PercentageCalls ==
  {[fn |-> "calculateBudgetPercentage", budget |-> b] : b \in Budgets \cup ZeroBudgets}

CalculateBudgetPercentage ==
  /\ call.fn = "calculateBudgetPercentage"
  /\ Return("calculateBudgetPercentage", calculateBudgetPercentage(call.budget))

PrioritizeBudgets ==
  /\ call.fn = "prioritizeBudgets"
  /\ Return("prioritizeBudgets", prioritizeBudgets(call.budgets))

\* historicalMonths.reduce((sum, month) => sum + month.expense, 0)
RECURSIVE SumExpense(_)
SumExpense(months) ==
  IF months = <<>> THEN 0 ELSE Head(months).expense + SumExpense(Tail(months))

\* the exponent of the largest power of 2 that is at most n, for n >= 1
RECURSIVE Log2Floor(_)
Log2Floor(n) == IF n < 2 THEN 0 ELSE 1 + Log2Floor(n \div 2)

RECURSIVE Pow2(_)
Pow2(e) == IF e = 0 THEN 1 ELSE 2 * Pow2(e - 1)

\* Math.ceil(avgSpending * 1.1) for avgSpending = sum / length of whole
\* expenses.  The double 1.1 lies 0.4 ulp above 11/10, so when 11/10 of the
\* average is a whole number N the product is N when it rounds down and the
\* next double above N when it rounds up, which it does iff the binary
\* significand of N exceeds 1.375; any other product is not within rounding
\* of a whole number.
CeilWithBuffer(sum, length) ==
  LET num == 11 * sum
      den == 10 * length
      N   == num \div den
  IN  IF num % den # 0 THEN N + 1
      ELSE IF N = 0 THEN 0
      ELSE IF 8 * N > 11 * Pow2(Log2Floor(N)) THEN N + 1
      ELSE N

\* trend > 0.2 for trend = (last - first) / first: Infinity when first is 0
\* and last is not, NaN (no comparison holds) when both are 0
TrendAbove(first, last) ==
  IF first = 0 THEN last > 0 ELSE (last - first) * 5 > first

\* trend < -0.2
TrendBelow(first, last) ==
  IF first = 0 THEN FALSE ELSE (last - first) * 5 < 0 - first

\* two months are enough only from the second month on: one month passes
HasTooFewMonths_One(historicalMonths) == Len(historicalMonths) < 1

\* historicalMonths.length < 2
HasTooFewMonths(historicalMonths) == Len(historicalMonths) < 2

suggestBudgetAdjustment(currentBudget, spent, historicalMonths) ==
  IF HasTooFewMonths(historicalMonths)
    THEN [suggested |-> currentBudget, reason |-> "Insufficient data for adjustment"]
  ELSE LET n        == Len(historicalMonths)
           hasTrend == n >= 3
           first    == historicalMonths[1].expense
           last     == historicalMonths[n].expense
       IN  [suggested |-> CeilWithBuffer(SumExpense(historicalMonths), n),
            reason |->
              IF hasTrend /\ TrendAbove(first, last)
                THEN "Expenses are increasing. Budget adjusted upward to accommodate the trend."
              ELSE IF hasTrend /\ TrendBelow(first, last)
                THEN "Expenses are decreasing. Budget adjusted downward to maintain discipline."
              ELSE "Budget adjusted based on historical spending average with 10% buffer."]

MaxMonths == 3

\* monthly expenses, in whole units
Expenses == {0, 100, 110, 125, 1000}

SuggestCalls ==
  {[fn |-> "suggestBudgetAdjustment", currentBudget |-> b, spent |-> sp,
    historicalMonths |-> h] :
     b \in {0, 1000}, sp \in {0, 900, 1500},
     h \in UNION {[1..n -> {[expense |-> x] : x \in Expenses}] : n \in 0..MaxMonths}}

SuggestBudgetAdjustment ==
  /\ call.fn = "suggestBudgetAdjustment"
  /\ Return("suggestBudgetAdjustment",
            suggestBudgetAdjustment(call.currentBudget, call.spent, call.historicalMonths))

\* Dates.  A time value is a day number (days since 1970-01-01 UTC) and the
\* milliseconds into that day; getTime() of an invalid Date is NaN.
DayMs == 1000 * 60 * 60 * 24

MinuteMs == 60 * 1000

InvalidDate == [day |-> NaN, ms |-> 0]

\* the time delta milliseconds after t
AddMs(t, delta) ==
  [day |-> t.day + ((t.ms + delta) \div DayMs), ms |-> (t.ms + delta) % DayMs]

IsLeap(y) == (y % 4 = 0 /\ y % 100 # 0) \/ y % 400 = 0

\* month is 0-based as in Date.prototype.getMonth
DaysInMonth(y, month) ==
  IF month = 1 THEN (IF IsLeap(y) THEN 29 ELSE 28)
  ELSE IF month \in {3, 5, 8, 10} THEN 30
  ELSE 31

LeapsBefore(y) == ((y - 1) \div 4) - ((y - 1) \div 100) + ((y - 1) \div 400)

DaysBeforeYear(y) == 365 * (y - 1970) + LeapsBefore(y) - LeapsBefore(1970)

RECURSIVE DaysBeforeMonth(_, _)
DaysBeforeMonth(y, month) ==
  IF month = 0 THEN 0
  ELSE DaysBeforeMonth(y, month - 1) + DaysInMonth(y, month - 1)

\* MakeDay of ECMAScript: a month past December and a date past the end of
\* the month carry into the following months
MakeDay(y, month, date) ==
  DaysBeforeYear(y + (month \div 12)) + DaysBeforeMonth(y + (month \div 12), month % 12)
    + date - 1

YearFromDay(day) ==
  CHOOSE y \in (1970 + (day \div 366))..(1970 + (day \div 365)) :
    DaysBeforeYear(y) <= day /\ day < DaysBeforeYear(y + 1)

MonthFromDay(day) ==
  CHOOSE month \in 0..11 :
    /\ MakeDay(YearFromDay(day), month, 1) <= day
    /\ day < MakeDay(YearFromDay(day), month + 1, 1)

DateFromDay(day) == day - MakeDay(YearFromDay(day), MonthFromDay(day), 1) + 1

\* the value of a string of digits
RECURSIVE ToInteger(_)
ToInteger(s) ==
  IF s = "" THEN 0
  ELSE 10 * ToInteger(SubSeq(s, 1, Len(s) - 1)) + DigitVal(Ch(s, Len(s)))

AllDigits(s) == \A i \in 1..Len(s) : Ch(s, i) \in Digits

\* s[1..10] is YYYY-MM-DD naming a day of the calendar
IsCalendarDate(s) ==
  /\ Len(s) >= 10
  /\ AllDigits(SubSeq(s, 1, 4)) /\ Ch(s, 5) = "-"
  /\ AllDigits(SubSeq(s, 6, 7)) /\ Ch(s, 8) = "-"
  /\ AllDigits(SubSeq(s, 9, 10))
  /\ ToInteger(SubSeq(s, 6, 7)) \in 1..12
  /\ ToInteger(SubSeq(s, 9, 10)) >= 1
  /\ ToInteger(SubSeq(s, 9, 10))
       <= DaysInMonth(ToInteger(SubSeq(s, 1, 4)), ToInteger(SubSeq(s, 6, 7)) - 1)

\* s[11..20] is THH:mm:ssZ naming a time of the day
IsClockTime(s) ==
  /\ Len(s) = 20
  /\ Ch(s, 11) = "T" /\ AllDigits(SubSeq(s, 12, 13)) /\ Ch(s, 14) = ":"
  /\ AllDigits(SubSeq(s, 15, 16)) /\ Ch(s, 17) = ":"
  /\ AllDigits(SubSeq(s, 18, 19)) /\ Ch(s, 20) = "Z"
  /\ ToInteger(SubSeq(s, 12, 13)) < 24
  /\ ToInteger(SubSeq(s, 15, 16)) < 60
  /\ ToInteger(SubSeq(s, 18, 19)) < 60

CalendarDay(s) ==
  MakeDay(ToInteger(SubSeq(s, 1, 4)), ToInteger(SubSeq(s, 6, 7)) - 1,
          ToInteger(SubSeq(s, 9, 10)))

ClockMs(s) ==
  ((ToInteger(SubSeq(s, 12, 13)) * 60 + ToInteger(SubSeq(s, 15, 16))) * 60
     + ToInteger(SubSeq(s, 18, 19))) * 1000

\* new Date(s) for the date strings budgets carry: the date-only form
\* YYYY-MM-DD is midnight UTC, YYYY-MM-DDTHH:mm:ssZ is that UTC time, and a
\* string that is no date gives an invalid Date
NewDate(s) ==
  IF IsCalendarDate(s) /\ Len(s) = 10 THEN [day |-> CalendarDay(s), ms |-> 0]
  ELSE IF IsCalendarDate(s) /\ IsClockTime(s)
    THEN [day |-> CalendarDay(s), ms |-> ClockMs(s)]
  ELSE InvalidDate

\* the local time of t in a zone tz minutes east of UTC (no daylight saving)
LocalTime(t, tz) == AddMs(t, tz * MinuteMs)

UTC(local, tz) == AddMs(local, 0 - tz * MinuteMs)

\* end.setDate(end.getDate() + n)
setDatePlus(t, n, tz) ==
  IF t = InvalidDate THEN InvalidDate
  ELSE UTC([day |-> MakeDay(YearFromDay(LocalTime(t, tz).day),
                            MonthFromDay(LocalTime(t, tz).day),
                            DateFromDay(LocalTime(t, tz).day) + n),
            ms |-> LocalTime(t, tz).ms], tz)

\* end.setMonth(end.getMonth() + n)
setMonthPlus(t, n, tz) ==
  IF t = InvalidDate THEN InvalidDate
  ELSE UTC([day |-> MakeDay(YearFromDay(LocalTime(t, tz).day),
                            MonthFromDay(LocalTime(t, tz).day) + n,
                            DateFromDay(LocalTime(t, tz).day)),
            ms |-> LocalTime(t, tz).ms], tz)

\* end.setFullYear(end.getFullYear() + n)
setFullYearPlus(t, n, tz) ==
  IF t = InvalidDate THEN InvalidDate
  ELSE UTC([day |-> MakeDay(YearFromDay(LocalTime(t, tz).day) + n,
                            MonthFromDay(LocalTime(t, tz).day),
                            DateFromDay(LocalTime(t, tz).day)),
            ms |-> LocalTime(t, tz).ms], tz)

\* if (endDate): an absent and an empty endDate are both falsy.  The optional
\* argument is <<>> when absent and <<s>> when it is the string s.
Truthy(optional) == optional # <<>> /\ optional[1] # ""

PeriodEnd(period, startDate, endDate, tz) ==
  IF Truthy(endDate) THEN NewDate(endDate[1])
  ELSE IF period = "daily" THEN setDatePlus(NewDate(startDate), 1, tz)
  ELSE IF period = "weekly" THEN setDatePlus(NewDate(startDate), 7, tz)
  ELSE IF period = "monthly" THEN setMonthPlus(NewDate(startDate), 1, tz)
  ELSE IF period = "yearly" THEN setFullYearPlus(NewDate(startDate), 1, tz)
  ELSE NewDate(startDate)

\* Math.ceil((end.getTime() - now.getTime()) / (1000 * 60 * 60 * 24))
CeilDays(end, current) ==
  IF end = InvalidDate THEN NaN
  ELSE (end.day - current.day) + (IF end.ms > current.ms THEN 1 ELSE 0)

\* the day count returned as it is
FloorAtZero_None(days) == days

\* Math.max(0, daysRemaining); NaN when daysRemaining is
FloorAtZero(days) == IF days = NaN THEN NaN ELSE IF days > 0 THEN days ELSE 0

\* current is the reading of the clock, new Date()
getDaysRemainingInPeriod(period, startDate, endDate, current, tz) ==
  FloorAtZero(CeilDays(PeriodEnd(period, startDate, endDate, tz), current))

Periods == {"daily", "weekly", "monthly", "yearly", "custom"}

StartDates ==
  {"2024-01-31", "2024-02-29", "2024-03-01", "2024-12-31T20:00:00Z", "first of May"}

EndDates == {<<>>, <<"">>, <<"2024-02-01">>, <<"2024-03-02T06:30:00Z">>, <<"open">>}

\* the readings of the clock: before, at and just after the period ends
Nows ==
  {AddMs(NewDate(d), delta) :
     d \in {"2024-01-31", "2024-02-01", "2024-03-02", "2025-01-01"},
     delta \in {0 - 1, 0, 1, DayMs \div 2}}

\* time zones of the host, in minutes east of UTC
Timezones == {0 - 300, 0, 330}

DaysRemainingCalls ==
  {[fn |-> "getDaysRemainingInPeriod", period |-> p, startDate |-> s, endDate |-> e,
    now |-> n, tz |-> z] :
     p \in Periods, s \in StartDates, e \in EndDates, n \in Nows, z \in Timezones}

GetDaysRemainingInPeriod ==
  /\ call.fn = "getDaysRemainingInPeriod"
  /\ Return("getDaysRemainingInPeriod",
            getDaysRemainingInPeriod(call.period, call.startDate, call.endDate,
                                     call.now, call.tz))

\* JavaScript > on numbers: no comparison with NaN holds
Greater(a, b) == a # NaN /\ b # NaN /\ a > b

\* totalBudget / daysRemaining, or 0 when daysRemaining === 0: the daily
\* budget is a quotient, in hundredths
DailyBudgetFor(totalBudget, daysRemaining) ==
  IF StrictEq(daysRemaining, 0) THEN Whole(0)
  ELSE IF daysRemaining = NaN THEN FractionNaN
  ELSE Fraction(totalBudget, daysRemaining)

\* current is the reading of the clock inside getDaysRemainingInPeriod
estimateDailyBudget(totalBudget, period, startDate, endDate, current, tz) ==
  DailyBudgetFor(totalBudget,
                 getDaysRemainingInPeriod(period, startDate, endDate, current, tz))

\* spent + dailyBudget * daysRemaining, amounts in hundredths
ProjectedSpending(spent, dailyBudget, daysRemaining) ==
  IF daysRemaining = NaN THEN FractionNaN
  ELSE FracAdd(Whole(spent), FracMul(dailyBudget, Whole(daysRemaining)))

\* the ratio left as it is, not made a percentage
PercentageProjected_Ratio(projectedSpending, totalBudget) ==
  FracMul(FracDiv(projectedSpending, Whole(totalBudget)), Whole(Scale))

\* (projectedSpending / totalBudget) * 100 in hundredths: x/0 is Infinity
\* for x > 0 and 0/0 is NaN
PercentageProjected(projectedSpending, totalBudget) ==
  FracMul(FracDiv(projectedSpending, Whole(totalBudget)), Whole(100 * Scale))

\* the fraction f cut to whole hundredths, for amounts that are not negative
Hundredths(f) ==
  IF f.den = 0 THEN (IF f.num > 0 THEN Infinity ELSE NaN) ELSE f.num \div f.den

\* Math.ceil of f hundredths, in whole units
Ceil(f) == 0 - ((0 - f.num) \div (f.den * Scale))

\* a period that never counts as ended
PeriodHasEnded_Never(daysRemaining) == FALSE

\* daysRemaining === 0
PeriodHasEnded(daysRemaining) == StrictEq(daysRemaining, 0)

warnIfOnTrackToExceed(spent, dailyBudget, daysRemaining, totalBudget) ==
  IF PeriodHasEnded(daysRemaining)
    THEN [warning |-> FALSE, message |-> "Budget period has ended"]
  ELSE IF FracGreater(ProjectedSpending(spent, dailyBudget, daysRemaining),
                      Whole(totalBudget))
    THEN [warning |-> TRUE,
          message |->
            "At current pace, you'll exceed budget by " \o RupeeSign
              \o NumberToString(Ceil(FracSub(
                                        ProjectedSpending(spent, dailyBudget, daysRemaining),
                                        Whole(totalBudget))))
              \o " (projected "
              \o toFixed0(Hundredths(PercentageProjected(
                             ProjectedSpending(spent, dailyBudget, daysRemaining),
                             totalBudget)))
              \o "%)"]
  ELSE IF FracGreater(PercentageProjected(
                        ProjectedSpending(spent, dailyBudget, daysRemaining), totalBudget),
                      Whole(80 * Scale))
    THEN [warning |-> TRUE,
          message |->
            "At current pace, you'll use "
              \o toFixed0(Hundredths(PercentageProjected(
                             ProjectedSpending(spent, dailyBudget, daysRemaining),
                             totalBudget)))
              \o "% of budget"]
  ELSE [warning |-> FALSE, message |-> ""]

\* amounts in hundredths; a day count that is not a number comes from a
\* period whose dates cannot be read.  The second set passes the daily budget
\* estimateDailyBudget gives, for budgets and day counts whose double
\* quotient times the day count is the budget again.
WarnCalls ==
  {[fn |-> "warnIfOnTrackToExceed", spent |-> sp, dailyBudget |-> Whole(d),
    daysRemaining |-> n, totalBudget |-> t] :
     sp \in {0, 500 * Scale, 1200 * Scale},
     d \in {0, 30 * Scale, 35 * Scale, 50 * Scale},
     n \in {0, 1, 10, NaN},
     t \in {0, 1000 * Scale}}
  \cup
  {[fn |-> "warnIfOnTrackToExceed", spent |-> sp,
    dailyBudget |-> DailyBudgetFor(t, n), daysRemaining |-> n, totalBudget |-> t] :
     sp \in {0, 500 * Scale},
     n \in {0, 1, 3, 7, 10},
     t \in {100 * Scale, 1000 * Scale}}

\* a budget of 0 or 1000 over a day or a month from 2024-01-31
EstimateCalls ==
  {[fn |-> "estimateDailyBudget", totalBudget |-> t, period |-> p,
    startDate |-> "2024-01-31", endDate |-> e, now |-> n, tz |-> 0] :
     t \in {0, 1000 * Scale}, p \in {"daily", "monthly"},
     e \in {<<>>, <<"2024-02-01">>}, n \in Nows}

EstimateDailyBudget ==
  /\ call.fn = "estimateDailyBudget"
  /\ Return("estimateDailyBudget",
            estimateDailyBudget(call.totalBudget, call.period, call.startDate,
                                call.endDate, call.now, call.tz))

WarnIfOnTrackToExceed ==
  /\ call.fn = "warnIfOnTrackToExceed"
  /\ Return("warnIfOnTrackToExceed",
            warnIfOnTrackToExceed(call.spent, call.dailyBudget, call.daysRemaining,
                                  call.totalBudget))

BudgetCalls ==
  AlertLevelCalls \cup AlertMessageCalls \cup PrioritizeCalls \cup SuggestCalls
    \cup DaysRemainingCalls \cup WarnCalls \cup EstimateCalls \cup PercentageCalls

(***************************************************************************)
(* Financial report (aiReportGenerator.ts).  Amounts are in hundredths and *)
(* are whole numbers of rupees; rates are percentages in hundredths and    *)
(* variances are ratios in hundredths.                                     *)
(***************************************************************************)
\* JavaScript < and >= on numbers: no comparison with NaN holds
Less(a, b) == a # NaN /\ b # NaN /\ a < b

GreaterEq(a, b) == a # NaN /\ b # NaN /\ a >= b

\* the score as it stands, not clamped
ClampScore_None(score) == score

\* Math.max(0, Math.min(100, score))
ClampScore(score) == IF score > 100 THEN 100 ELSE IF score < 0 THEN 0 ELSE score

\* the if / else if / else if chain on savingsRate
SavingsRateAdjustment(savingsRate) ==
  IF Less(savingsRate, 15 * Scale) THEN 0 - 30
  ELSE IF Less(savingsRate, 25 * Scale) THEN 0 - 15
  ELSE IF GreaterEq(savingsRate, 35 * Scale) THEN 10
  ELSE 0

\* both deductions for a variance outside [-0.2, 0.3]
VarianceAdjustment_Both(expenseVariance) ==
  IF Greater(expenseVariance, (3 * Scale) \div 10)
       \/ Less(expenseVariance, 0 - ((2 * Scale) \div 10))
    THEN 0 - 15
  ELSE 0

\* the two independent tests on expenseVariance, 0.3 and -0.2 in hundredths
VarianceAdjustment(expenseVariance) ==
  (IF Greater(expenseVariance, (3 * Scale) \div 10) THEN 0 - 10 ELSE 0)
    + (IF Less(expenseVariance, 0 - ((2 * Scale) \div 10)) THEN 0 - 5 ELSE 0)

\* metrics.expense > metrics.income * 1.1
OverspendAdjustment(metrics) ==
  IF metrics.expense * 10 > metrics.income * 11 THEN 0 - 25 ELSE 0

calculateFinancialScore(metrics, expenseVariance) ==
  ClampScore(100 + SavingsRateAdjustment(metrics.savingsRate)
               + VarianceAdjustment(expenseVariance) + OverspendAdjustment(metrics))

\* a month of income and expense with the savings rate the caller reports
Metrics(income, expense, savingsRate) ==
  [income |-> income * Scale, expense |-> expense * Scale,
   savings |-> (income - expense) * Scale, savingsRate |-> savingsRate]

\* savings rates on both sides of 15, 25 and 35 percent
SavingsRates == {0 - 500, 0, 1499, 1500, 2499, 2500, 3499, 3500, 5000, NaN}

\* expense variances on both sides of 0.3 and -0.2
ExpenseVariances == {0 - 50, 0 - 21, 0 - 20, 0, 30, 31, 50}

IncomeExpense == {<<1000, 500>>, <<1000, 1100>>, <<1000, 1101>>, <<0, 0>>, <<0, 1>>}

ScoreCalls ==
  {[fn |-> "calculateFinancialScore", metrics |-> Metrics(ie[1], ie[2], r),
    expenseVariance |-> v] :
     ie \in IncomeExpense, r \in SavingsRates, v \in ExpenseVariances}

CalculateFinancialScore ==
  /\ call.fn = "calculateFinancialScore"
  /\ Return("calculateFinancialScore",
            calculateFinancialScore(call.metrics, call.expenseVariance))

\* The en dash U+2013 of the report texts, written "-" in the ASCII strings
\* of the model.
Dash == "-"

\* x / y * 100 in hundredths for x >= 0 and y >= 0: x/0 is Infinity for
\* x > 0 and 0/0 is NaN.  The quotient is taken digit by digit, which keeps
\* the intermediate products of large amounts small.
Percent(x, y) ==
  IF x = NaN \/ y = NaN THEN NaN
  ELSE IF y = 0 THEN (IF x = 0 THEN NaN ELSE Infinity)
  ELSE (x \div y) * 100 * Scale + (((x % y) * 100) \div y) * Scale
         + ((((x % y) * 100) % y) * Scale) \div y

\* Math.abs on numbers
MathAbs(x) == IF x = NaN THEN NaN ELSE Abs(x)

\* x.toFixed(1) for x = h hundredths
toFixed1(h) ==
  IF h = NaN THEN "NaN"
  ELSE IF h = Infinity THEN "Infinity"
  ELSE (IF h < 0 THEN "-" ELSE "")
         \o NumberToString(((MathAbs(h) + 5) \div 10) \div 10) \o "."
         \o NumberToString(((MathAbs(h) + 5) \div 10) % 10)

\* digits in groups of two from the right
RECURSIVE GroupByTwo(_)
GroupByTwo(s) ==
  IF Len(s) <= 2 THEN s
  ELSE GroupByTwo(SubSeq(s, 1, Len(s) - 2)) \o "," \o SubSeq(s, Len(s) - 1, Len(s))

\* the en-IN grouping: the last three digits, then groups of two
GroupIndian(s) ==
  IF Len(s) <= 3 THEN s
  ELSE GroupByTwo(SubSeq(s, 1, Len(s) - 3)) \o "," \o SubSeq(s, Len(s) - 2, Len(s))

\* Intl.NumberFormat('en-IN', { maximumFractionDigits: 0 }).format(amount)
formatAmount(amount) ==
  IF amount = NaN THEN "NaN"
  ELSE (IF amount < 0 THEN "-" ELSE "")
         \o GroupIndian(NumberToString((MathAbs(amount) + Scale \div 2) \div Scale))

generateSummary(metrics, month, incomeTrend, savingsTrend) ==
  "In " \o month \o ", you earned " \o RupeeSign \o formatAmount(metrics.income)
    \o " and spent " \o RupeeSign \o formatAmount(metrics.expense) \o "."
    \o " Your net savings were " \o RupeeSign \o formatAmount(metrics.savings) \o "."
    \o (IF Greater(metrics.savingsRate, 30 * Scale)
          THEN " Excellent job maintaining a savings rate of "
                 \o toFixed1(metrics.savingsRate)
                 \o "%! Keep up this disciplined approach."
        ELSE IF Greater(metrics.savingsRate, 20 * Scale)
          THEN " Your savings rate of " \o toFixed1(metrics.savingsRate)
                 \o "% is solid. You're on the right track."
        ELSE IF Greater(metrics.savingsRate, 10 * Scale)
          THEN " Your savings rate is " \o toFixed1(metrics.savingsRate)
                 \o "%. Consider increasing it for better financial security."
        ELSE IF GreaterEq(metrics.savingsRate, 0)
          THEN " Your savings rate is only " \o toFixed1(metrics.savingsRate)
                 \o "%. Focus on reducing discretionary spending."
        ELSE " Warning: You spent more than you earned! Start reviewing your expenses.")
    \o (IF Greater(incomeTrend, 0)
          THEN " Income increased by " \o RupeeSign \o formatAmount(incomeTrend) \o "."
        ELSE IF Less(incomeTrend, 0)
          THEN " Income decreased by " \o RupeeSign \o formatAmount(MathAbs(incomeTrend)) \o "."
        ELSE "")

\* Math.abs(expenseTrend / previous.expense) > 0.1
TrendIsLarge(expenseTrend, previousExpense) ==
  IF previousExpense = 0 THEN expenseTrend # 0
  ELSE MathAbs(expenseTrend) * 10 > previousExpense

generateTrendAnalysis(current, previous, incomeTrend, expenseTrend) ==
  "Month-over-Month Analysis: "
    \o (IF Greater(expenseTrend, 0) /\ TrendIsLarge(expenseTrend, previous.expense)
          THEN "Expenses increased by "
                 \o toFixed1(Percent(expenseTrend, previous.expense)) \o "%. "
        ELSE IF Less(expenseTrend, 0) /\ TrendIsLarge(expenseTrend, previous.expense)
          THEN "Expenses decreased by "
                 \o toFixed1(Percent(MathAbs(expenseTrend), previous.expense)) \o "%. "
        ELSE "")
    \o (IF Greater(current.savingsRate, previous.savingsRate)
          THEN "Your savings improved by "
                 \o toFixed1(NumSub(current.savingsRate, previous.savingsRate))
                 \o " percentage points."
        ELSE IF Less(current.savingsRate, previous.savingsRate)
          THEN "Your savings decreased by "
                 \o toFixed1(NumSub(previous.savingsRate, current.savingsRate))
                 \o " percentage points."
        ELSE "Your savings rate remained stable.")

generateBudgetStatus(savingsRate) ==
  IF Greater(savingsRate, 35 * Scale)
    THEN "Budget Status: Excellent " \o Dash \o " You are on track to meet your financial goals. Consider allocating surplus towards investments or emergency fund."
  ELSE IF Greater(savingsRate, 25 * Scale)
    THEN "Budget Status: Good " \o Dash \o " Your spending is well-controlled. Maintain this discipline."
  ELSE IF Greater(savingsRate, 15 * Scale)
    THEN "Budget Status: Fair " \o Dash \o " You have room to optimize. Review discretionary expenses."
  ELSE IF Greater(savingsRate, 0)
    THEN "Budget Status: Needs Attention " \o Dash \o " Cut non-essential expenses to improve your financial health."
  ELSE "Budget Status: Critical " \o Dash \o " Your expenses exceed income. Immediate action required to address deficit spending."

\* recommendations.push(text) if condition holds
PushIf(condition, text) == IF condition THEN <<text>> ELSE <<>>

\* expenses that count as increasing when they are unchanged
IsIncreasing_OrFlat(expenseTrend) == GreaterEq(expenseTrend, 0)

\* expenseTrend > 0
IsIncreasing(expenseTrend) == Greater(expenseTrend, 0)

generateRecommendations(metrics, topCategories, savingsRate, expenseTrend) ==
  PushIf(Len(topCategories) > 0 /\ Greater(topCategories[1].percentage, 30 * Scale),
         "Your top spending category (" \o topCategories[1].category \o ") accounts for "
           \o toFixed1(topCategories[1].percentage)
           \o "% of expenses. Consider setting a strict limit for this category.")
    \o PushIf(IsIncreasing(expenseTrend),
              "Your monthly expenses are increasing. Review recent transactions to identify unnecessary spending patterns.")
    \o PushIf(Less(savingsRate, 20 * Scale),
              "Aim to save at least 20% of your income. Start by tracking and reducing discretionary spending.")
    \o PushIf(Less(metrics.income, 50000 * Scale),
              "Consider building a 3-month emergency fund as a priority before major investments.")
    \o <<"Review subscriptions and recurring expenses monthly to eliminate unused services.">>

DeficitSpending == "Deficit spending detected " \o Dash \o " spending exceeds income"

SharpIncrease == "Sharp increase in expenses " \o Dash \o " possible unusual spending"

ZeroSavingsRate == "Zero savings rate " \o Dash \o " no financial cushion being built"

ExpensesExceedIncome ==
  "Expenses significantly exceed income " \o Dash \o " requires attention"

\* expenseTrend > previous.expense * 0.2 and current.expense >
\* current.income * 1.2, on whole amounts
generateRiskFactors(current, previous, expenseTrend) ==
  PushIf(Less(current.savings, 0), DeficitSpending)
    \o PushIf(expenseTrend * 10 > previous.expense * 2, SharpIncrease)
    \o PushIf(Less(current.savingsRate, 0), ZeroSavingsRate)
    \o PushIf(current.expense * 10 > current.income * 12, ExpensesExceedIncome)

\* a comparator that sorts the smallest amount first
CompareAmount_Ascending(a, b) == a[2] - b[2]

\* ([, a], [, b]) => b - a
CompareAmount(a, b) == b[2] - a[2]

\* x put after the last entry it does not precede: a stable insertion
InsertByAmount(sorted, x) ==
  LET before == {i \in 1..Len(sorted) : CompareAmount(sorted[i], x) <= 0}
      k      == IF before = {} THEN 0 ELSE Max(before)
  IN  SubSeq(sorted, 1, k) \o <<x>> \o SubSeq(sorted, k + 1, Len(sorted))

\* Array.prototype.sort, which is stable
RECURSIVE SortByAmount(_)
SortByAmount(entries) ==
  IF entries = <<>> THEN <<>>
  ELSE InsertByAmount(SortByAmount(SubSeq(entries, 1, Len(entries) - 1)),
                      entries[Len(entries)])

\* .slice(0, 5)
Slice5(entries) == SubSeq(entries, 1, IF Len(entries) < 5 THEN Len(entries) ELSE 5)

TopCategory(entry, totalExpense) ==
  [category |-> entry[1], amount |-> entry[2],
   percentage |-> Percent(entry[2], totalExpense)]

RECURSIVE MapTopCategory(_, _)
MapTopCategory(entries, totalExpense) ==
  IF entries = <<>> THEN <<>>
  ELSE <<TopCategory(Head(entries), totalExpense)>>
         \o MapTopCategory(Tail(entries), totalExpense)

\* categorySpending is the sequence of its entries in insertion order
TopCats(categorySpending, totalExpense) ==
  MapTopCategory(Slice5(SortByAmount(categorySpending)), totalExpense)

\* the body of generateFinancialReport once topCats and expenseTrend are known
Insights(currentMonth, previousMonth, topCats, monthName, expenseTrend) ==
  [summary |-> generateSummary(currentMonth, monthName,
                               currentMonth.income - previousMonth.income,
                               currentMonth.savings - previousMonth.savings),
   topCategories |-> topCats,
   monthlyTrend |-> generateTrendAnalysis(currentMonth, previousMonth,
                                          currentMonth.income - previousMonth.income,
                                          expenseTrend),
   budgetStatus |-> generateBudgetStatus(currentMonth.savingsRate),
   recommendations |-> generateRecommendations(currentMonth, topCats,
                                               currentMonth.savingsRate, expenseTrend),
   riskFactors |-> generateRiskFactors(currentMonth, previousMonth, expenseTrend)]

\* monthName is the month the clock and the en-IN locale give
generateFinancialReport(currentMonth, previousMonth, categorySpending, totalExpense, monthName) ==
  Insights(currentMonth, previousMonth, TopCats(categorySpending, totalExpense),
           monthName, currentMonth.expense - previousMonth.expense)

MaxCategories == 6

CategoryNames == <<"Food", "Rent", "Travel", "Fun", "Health", "Bills", "Gifts">>

\* category amounts, in hundredths
CategoryAmounts == {100 * Scale, 300 * Scale}

\* every categorySpending of up to MaxCategories categories
CategorySpendings ==
  UNION {{[i \in 1..n |-> <<CategoryNames[i], amounts[i]>>] :
            amounts \in [1..n -> CategoryAmounts]} : n \in 0..MaxCategories}

\* the months reported on: savings rates 50, 0, -20 and -20.1 percent
CurrentMonths ==
  {Metrics(60000, 30000, 5000), Metrics(1000, 1000, 0), Metrics(1000, 1200, 0 - 2000),
   Metrics(1000, 1201, 0 - 2010)}

PreviousMonths ==
  {Metrics(1000, 1000, 0), Metrics(2000, 500, 7500), Metrics(0, 0, NaN),
   Metrics(60000, 45000, 2500)}

TotalExpenses == {0, 300 * Scale, 1000 * Scale}

ReportInputs ==
  {[fn |-> "generateFinancialReport", currentMonth |-> c, previousMonth |-> p,
    categorySpending |-> s, totalExpense |-> t, monthName |-> "January 2024"] :
     c \in CurrentMonths, p \in PreviousMonths, s \in CategorySpendings,
     t \in TotalExpenses}

GenerateFinancialReport ==
  /\ call.fn = "generateFinancialReport"
  /\ Return("generateFinancialReport",
            generateFinancialReport(call.currentMonth, call.previousMonth,
                                    call.categorySpending, call.totalExpense,
                                    call.monthName))

\* monthlyData.reduce((sum, m) => sum + m.income, 0)
RECURSIVE SumIncome(_)
SumIncome(months) ==
  IF months = <<>> THEN 0 ELSE Head(months).income + SumIncome(Tail(months))

\* the whole history taken as the recent months
RecentData_All(monthlyData) == monthlyData

\* monthlyData.slice(-3)
RecentData(monthlyData) ==
  SubSeq(monthlyData, Max({1, Len(monthlyData) - 2}), Len(monthlyData))

\* the relative change of expense over the recent months
ExpenseTrend(recentData) ==
  IF Len(recentData) > 1
    THEN FracDiv(Whole(recentData[Len(recentData)].expense - recentData[1].expense),
                 Whole(recentData[1].expense))
  ELSE Whole(0)

\* avgExpense * (1 + trend * 0.5)
PredictedExpense(avgExpense, trend) ==
  FracMul(avgExpense, FracAdd(Whole(1), FracMul(trend, Fraction(1, 2))))

\* predictedIncome > 0 ? (predictedSavings / predictedIncome) * 100 : 0, a
\* percentage in hundredths
PredictedRate(predictedSavings, predictedIncome) ==
  IF FracGreater(predictedIncome, Whole(0))
    THEN FracMul(FracDiv(predictedSavings, predictedIncome), Whole(100 * Scale))
  ELSE Whole(0)

\* the record returned once the two predictions are known
Prediction(predictedIncome, predictedExpense) ==
  [income |-> predictedIncome,
   expense |-> predictedExpense,
   savings |-> FracSub(predictedIncome, predictedExpense),
   savingsRate |-> PredictedRate(FracSub(predictedIncome, predictedExpense),
                                 predictedIncome)]

predictFutureSpending(monthlyData) ==
  IF Len(monthlyData) = 0
    THEN [income |-> Whole(0), expense |-> Whole(0), savings |-> Whole(0),
          savingsRate |-> Whole(0)]
  ELSE Prediction(Fraction(SumIncome(monthlyData), Len(monthlyData)),
                  PredictedExpense(Fraction(SumExpense(monthlyData), Len(monthlyData)),
                                   ExpenseTrend(RecentData(monthlyData))))

MaxHistory == 4

\* months of the history, in rupees: income, expense, savings rate
HistoryMonths ==
  {Metrics(20, 10, 5000), Metrics(20, 20, 0), Metrics(0, 0, NaN), Metrics(40, 15, 6250)}

PredictCalls ==
  {[fn |-> "predictFutureSpending", monthlyData |-> h] :
     h \in UNION {[1..n -> HistoryMonths] : n \in 0..MaxHistory}}

PredictFutureSpending ==
  /\ call.fn = "predictFutureSpending"
  /\ Return("predictFutureSpending", predictFutureSpending(call.monthlyData))

ReportCalls == ScoreCalls \cup ReportInputs \cup PredictCalls

(***************************************************************************)
(* Specifications                                                          *)
(***************************************************************************)
Init == ImportInit /\ ParseIdle /\ DupIdle /\ CallIdle /\ ScanIdle
Next ==
  \/ Tick
  \/ HandleImport
  \/ SelectTransactions
  \/ SelectAccounts
  \/ Loop
  \/ SelectCategory
  \/ InsertTransaction
  \/ SelectBalance
  \/ UpdateBalance
Spec == Init /\ [][Next]_vars

\* the steps of handleImport that follow an awaited store call
Resume ==
  \/ SelectTransactions
  \/ SelectAccounts
  \/ SelectCategory
  \/ InsertTransaction
  \/ SelectBalance
  \/ UpdateBalance

\* Every store call settles (it returns data, returns an error or rejects)
\* and the event loop then runs the continuation of the handler: a handler
\* that can resume does resume.  The head of the loop runs in the same turn
\* as the step before it; it can run exactly when pc = "loop", which is how
\* its weak fairness is written.  Nothing is assumed of the click or of the
\* clock.
SpecLive ==
  /\ Init /\ [][Next]_vars
  /\ WF_vars(Resume)
  /\ ([]<>(pc # "loop") \/ []<><<Loop>>_vars)

InitParse == ParseInit /\ DupIdle /\ ImportIdle /\ CallIdle /\ ScanIdle
NextParse == Parse
SpecParse == InitParse /\ [][NextParse]_vars

InitDup == DupInit /\ ParseIdle /\ ImportIdle /\ CallIdle /\ ScanIdle
NextDup == DetectDuplicate
SpecDup == InitDup /\ [][NextDup]_vars

InitMultiple == CallInit(ParseMultipleCalls) /\ ParseIdle /\ DupIdle /\ ImportIdle /\ ScanIdle
NextMultiple == ParseMultipleSMS
SpecMultiple == InitMultiple /\ [][NextMultiple]_vars

InitBudget == CallInit(BudgetCalls) /\ ParseIdle /\ DupIdle /\ ImportIdle /\ ScanIdle
NextBudget ==
  \/ GetAlertLevel
  \/ GetAlertMessage
  \/ PrioritizeBudgets
  \/ SuggestBudgetAdjustment
  \/ GetDaysRemainingInPeriod
  \/ WarnIfOnTrackToExceed
  \/ EstimateDailyBudget
  \/ CalculateBudgetPercentage
SpecBudget == InitBudget /\ [][NextBudget]_vars

\* a scan run on a store whose import component is left alone
StoreInit ==
  /\ transactions \in InitialTables
  /\ activeAccounts \in {<<>>, <<"acc1", "acc2">>}
  /\ balance = [a \in AccountIds |-> 1000 * Scale]
  /\ now = StartTime
  /\ hasUser \in BOOLEAN
  /\ balanceAtStart = balance
  /\ rowsAtStart = Len(transactions)

ImportComponentIdle ==
  /\ smsList = <<>>
  /\ loading = FALSE
  /\ results = <<>>
  /\ imported = 0
  /\ pc = "idle"
  /\ exit = "none"
  /\ existingTransactions = <<>>
  /\ defaultAccountId = ""
  /\ parseResults = <<>>
  /\ successCount = 0
  /\ idx = 0
  /\ parsed = Null
  /\ existingCategory = <<>>
  /\ error = FALSE
  /\ newBalance = 0

InitScan == StoreInit /\ ImportComponentIdle /\ ScanInit /\ ParseIdle /\ DupIdle /\ CallIdle
NextScan ==
  \/ HandleScanReceipts
  \/ ScanSelectAccounts
  \/ ScanLoop
  \/ InsertReceipt
  \/ ScanSelectCategory
  \/ ScanInsertTransaction
  \/ ScanSelectBalance
  \/ ScanUpdateBalance
SpecScan == InitScan /\ [][NextScan]_vars

\* An import run and a scan run of the same user on the same store.  Each
\* handler is an async function that yields at every await, and each
\* component disables its own button with its own loading value only
\* (SMSImportModal.tsx:192, ReceiptScannerModal disabled={loading || ..}):
\* neither handler looks at the other component, and the store calls carry
\* no lock or version, so the steps of the two runs interleave freely.
InitRuns ==
  /\ transactions = <<>>
  /\ activeAccounts = <<"acc1", "acc2">>
  /\ balance = [a \in AccountIds |-> 1000 * Scale]
  /\ now = StartTime
  /\ hasUser = TRUE
  /\ balanceAtStart = balance
  /\ rowsAtStart = 0
  /\ smsList \in {<<m>> : m \in ImportMessages}
  /\ loading = FALSE
  /\ results = <<>>
  /\ imported = 0
  /\ pc = "idle"
  /\ exit = "none"
  /\ existingTransactions = <<>>
  /\ defaultAccountId = ""
  /\ parseResults = <<>>
  /\ successCount = 0
  /\ idx = 0
  /\ parsed = Null
  /\ existingCategory = <<>>
  /\ error = FALSE
  /\ newBalance = 0
  /\ receipts = <<>>
  /\ scanner \in {[ScannerIdleState EXCEPT !.files = <<f>>] : f \in FileNames}
  /\ ParseIdle /\ DupIdle /\ CallIdle
NextRuns ==
  \/ Tick
  \/ HandleImport
  \/ SelectTransactions
  \/ SelectAccounts
  \/ Loop
  \/ SelectCategory
  \/ InsertTransaction
  \/ SelectBalance
  \/ UpdateBalance
  \/ HandleScanReceipts
  \/ ScanSelectAccounts
  \/ ScanLoop
  \/ InsertReceipt
  \/ ScanSelectCategory
  \/ ScanInsertTransaction
  \/ ScanSelectBalance
  \/ ScanUpdateBalance
SpecRuns == InitRuns /\ [][NextRuns]_vars

\* the report functions, each applied to one input
InitReport == CallInit(ReportCalls) /\ ParseIdle /\ DupIdle /\ ImportIdle /\ ScanIdle

NextReport ==
  \/ CalculateFinancialScore
  \/ GenerateFinancialReport
  \/ PredictFutureSpending

SpecReport == InitReport /\ [][NextReport]_vars

(***************************************************************************)
(* Properties                                                              *)
(***************************************************************************)

RECURSIVE SuccessSum(_)
\* the income amounts minus the expense amounts of the entries recorded as
\* success
SuccessSum(entries) ==
  IF entries = <<>> THEN 0
  ELSE LET e == Head(entries)
       IN  (IF e.status # "success" THEN 0
            ELSE IF e.type = "income" THEN e.amount ELSE 0 - e.amount)
           + SuccessSum(Tail(entries))

SuccessEntries(entries) == {i \in 1..Len(entries) : entries[i].status = "success"}

\* C1: after handleImport has processed a batch, the balance of the selected
\* (first active) account is its balance before the batch plus the amounts
\* of the messages recorded as success with type income minus those recorded
\* as success with type expense.
C1_BalanceFollowsSuccesses ==
  pc = "done" /\ exit = "normal" =>
    balance[defaultAccountId] = balanceAtStart[defaultAccountId] + SuccessSum(results)

\* C2: a batch that handleImport completes reports exactly one entry per
\* message, in input order, each with a status of success, duplicate, failed
\* or error, and a success count equal to the number of success entries.
C2_OneOutcomePerMessage ==
  exit = "normal" =>
    /\ Len(results) = Len(smsList)
    /\ \A i \in 1..Len(results) :
         /\ results[i].sms = substring0(smsList[i], 50)
         /\ results[i].status \in {"success", "duplicate", "failed", "error"}
    /\ imported = Cardinality(SuccessEntries(results))

\* a completed batch of two messages, the first one longer than 50
\* characters and imported, the second one not
C2_Witness ==
  /\ exit = "normal"
  /\ Len(results) = 2
  /\ results[1].status = "success"
  /\ results[1].sms # smsList[1]
  /\ results[2].status = "error"
  /\ imported = 1

\* C3: a message is recorded failed ('Could not parse') iff it does not
\* parse; else duplicate ('Similar transaction found') iff
\* detectDuplicateTransaction returns true; else it is handed to the store
\* and recorded success, with the parsed amount and type, iff the insert
\* reports no error, else error.
C3_Classification ==
  [][/\ Loop /\ idx <= Len(smsList) =>
          LET sms == smsList[idx]
              txn == parseSMSTransaction(sms, now)
              dup == txn # Null /\ detectDuplicateTransaction(txn, existingTransactions, now)
              pre == SubSeq(sms, 1, IF Len(sms) < 50 THEN Len(sms) ELSE 50)
          IN  /\ txn = Null =>
                   /\ parseResults' = Append(parseResults,
                        [sms |-> pre, status |-> "failed", reason |-> "Could not parse"])
                   /\ pc' = "loop"
              /\ dup =>
                   /\ parseResults' = Append(parseResults,
                        [sms |-> pre, status |-> "duplicate",
                         reason |-> "Similar transaction found"])
                   /\ pc' = "loop"
              /\ txn # Null /\ ~dup =>
                   /\ parseResults' = parseResults
                   /\ parsed' = txn
                   /\ pc' = "selectCategory"
     /\ InsertTransaction /\ exit' # "throw" =>
          /\ Len(parseResults') = Len(parseResults) + 1
          /\ LET e == parseResults'[Len(parseResults')]
             IN  IF Len(transactions') = Len(transactions) + 1
                   THEN /\ e.status = "success"
                        /\ e.amount = parsed.amount
                        /\ e.type = parsed.type
                        /\ ~error'
                   ELSE /\ e.status = "error"
                        /\ error'
                        /\ transactions' = transactions
    ]_vars

\* a batch whose first message was found in the window and whose second
\* message was imported
C3_Witness ==
  /\ Len(parseResults) = 2
  /\ parseResults[1].status = "duplicate"
  /\ parseResults[2].status = "success"

\* C4: when the insert for a message reports an error, that message is
\* recorded with status error, the success count is not incremented, no row
\* is added, the balance is neither read nor changed for it and the insert
\* is not retried: the handler goes on with the next message.
C4_InsertErrorIsLocal ==
  [][InsertTransaction /\ exit' # "throw" /\ error' =>
       /\ parseResults' = Append(parseResults,
            [sms    |-> SubSeq(smsList[idx], 1,
                               IF Len(smsList[idx]) < 50 THEN Len(smsList[idx]) ELSE 50),
             status |-> "error",
             reason |-> "Database error"])
       /\ successCount' = successCount
       /\ transactions' = transactions
       /\ balance' = balance
       /\ pc' = "loop"
       /\ idx' = idx + 1
    ]_vars

\* a message recorded with status error and a later message processed
C4_Witness ==
  /\ Len(parseResults) = 2
  /\ parseResults[1].status = "error"
  /\ parseResults[2].status = "success"
  /\ successCount = 1
  /\ Len(transactions) = rowsAtStart + 1

\* C5: a persistence call that throws for one message does not abort the
\* batch: the outcomes of all messages and the success count are reported.
C5_ThrowDoesNotAbort ==
  pc = "done" /\ exit = "throw" /\ idx >= 1 =>
    /\ Len(results) = Len(smsList)
    /\ imported = Cardinality(SuccessEntries(results))

\* C6: a message that parses to the amount, type and merchant of an earlier
\* message of the same batch that was imported less than 5 minutes before is
\* classified duplicate and is not inserted a second time.
C6_NoSecondInsertInBatch ==
  \A i, j \in (rowsAtStart + 1)..Len(transactions) :
    i < j =>
      ~ /\ transactions[i].amount # NaN
        /\ transactions[i].amount = transactions[j].amount
        /\ transactions[i].type = transactions[j].type
        /\ transactions[i].merchant = transactions[j].merchant
        /\ transactions[j].created_at - transactions[i].created_at < 300000

\* C7: detectDuplicateTransaction returns true iff some row of the window
\* has the amount, the type and the merchant (case-sensitively) of the new
\* transaction and lies less than 5 minutes from the wall-clock time of the
\* check, whatever the parsed_at of the new transaction; so it returns false
\* for an empty window, when a field differs, and at 5 minutes or more.
\* (The rows of the window come from the store and never hold NaN.)
C7_DuplicateIff ==
  dupDone =>
    (isDuplicate <=>
       \E i \in 1..Len(existingWindow) :
         /\ existingWindow[i].amount = newTransaction.amount
         /\ newTransaction.amount # NaN
         /\ existingWindow[i].type = newTransaction.type
         /\ existingWindow[i].merchant = newTransaction.merchant
         /\ checkTime - existingWindow[i].created_at < 300000
         /\ existingWindow[i].created_at - checkTime < 300000)

\* a check that found its match behind a row lying exactly 5 minutes back,
\* for a transaction parsed 5 minutes before the check
C7_Witness ==
  /\ dupDone
  /\ isDuplicate
  /\ Len(existingWindow) = 2
  /\ existingWindow[1].amount = newTransaction.amount
  /\ existingWindow[1].type = newTransaction.type
  /\ existingWindow[1].merchant = newTransaction.merchant
  /\ existingWindow[1].created_at = checkTime - 300000
  /\ existingWindow[2].created_at = checkTime + 299999
  /\ newTransaction.raw_data.parsed_at = checkTime - 300000

\* the debit or credit pattern of a source matches the lower-cased text
SourceMatches(source, text) ==
  \/ AmountMatch(toLowerCase(text), upiPatterns[source].debit).matched
  \/ AmountMatch(toLowerCase(text), upiPatterns[source].credit).matched

\* C8: the record returned by parseSMSTransaction carries the source_app
\* (and the description "<SOURCE> transaction") of the first of phonepe,
\* googlepay, paytm, bank whose debit or credit pattern matches the text,
\* whatever later sources match; null is returned iff no source matches.
C8_FirstSourceWins ==
  parseDone =>
    LET order   == <<"phonepe", "googlepay", "paytm", "bank">>
        upper   == <<"PHONEPE", "GOOGLEPAY", "PAYTM", "BANK">>
        matches == {n \in 1..4 : SourceMatches(order[n], smsText)}
    IN  /\ (parseResult = Null) <=> (matches = {})
        /\ matches # {} =>
             /\ parseResult.raw_data.source_app = order[Min(matches)]
             /\ parseResult.description = upper[Min(matches)] \o " transaction"

\* a text that two sources match and that was given to the earlier one
C8_Witness ==
  /\ parseDone
  /\ parseResult # Null
  /\ parseResult.raw_data.source_app = "paytm"
  /\ SourceMatches("bank", smsText)

\* C9: within the winning source the debit pattern is tested first: the type
\* is expense whenever the debit pattern matches (the credit pattern may
\* match too) and income only when the credit pattern matches and the debit
\* pattern does not; the type is never transfer and the source is "sms".
C9_DebitBeforeCredit ==
  parseDone /\ parseResult # Null =>
    LET text   == toLowerCase(smsText)
        pats   == upiPatterns[parseResult.raw_data.source_app]
        debit  == AmountMatch(text, pats.debit).matched
        credit == AmountMatch(text, pats.credit).matched
    IN  /\ debit => parseResult.type = "expense"
        /\ parseResult.type = "income" => credit /\ ~debit
        /\ parseResult.type \in {"expense", "income"}
        /\ parseResult.source = "sms"

\* a text that the debit and the credit pattern of the winning source match
C9_Witness ==
  /\ parseDone
  /\ parseResult # Null
  /\ parseResult.type = "expense"
  /\ AmountMatch(toLowerCase(smsText),
                 upiPatterns[parseResult.raw_data.source_app].credit).matched

\* C10: parseSMSTransaction never returns a record whose amount is not a
\* number: a captured amount that does not parse makes the source a
\* non-match.
C10_AmountIsNumber ==
  parseDone /\ parseResult # Null => parseResult.amount # NaN

\* C11: parseMultipleSMS returns, in input order, exactly the non-null
\* results of parseSMSTransaction on the elements: its length is the number
\* of parseable messages (at most the input length) and its k-th entry is
\* the result for the k-th parseable message.
C11_ParsedInOrder ==
  Returned("parseMultipleSMS") =>
    LET list == call.smsList
        keep == {i \in 1..Len(list) : parseSMSTransaction(list[i], ParseClock) # Null}
    IN  /\ Len(callResult) = Cardinality(keep)
        /\ Len(callResult) <= Len(list)
        /\ \A k \in 1..Len(callResult) :
             \E i \in keep :
               /\ Cardinality({j \in keep : j <= i}) = k
               /\ callResult[k] = parseSMSTransaction(list[i], ParseClock)

\* a list of three messages whose second one does not parse and whose other
\* two differ
C11_Witness ==
  /\ Returned("parseMultipleSMS")
  /\ Len(call.smsList) = 3
  /\ Len(callResult) = 2
  /\ callResult[1].raw_data.sms_text = call.smsList[1]
  /\ callResult[2].raw_data.sms_text = call.smsList[3]
  /\ call.smsList[1] # call.smsList[3]

\* the text sub occurs in s
Contains(s, sub) == \E i \in 1..Len(s) : LitAt(s, i, sub)

C13_PrioritizedStable ==
  Returned("prioritizeBudgets") =>
    LET budgets == call.budgets
        n       == Len(budgets)
        Tier(b) == IF b.spent = 0 /\ b.amount = 0 THEN 4
                   ELSE IF b.spent * 100 >= 100 * b.amount THEN 1
                   ELSE IF b.spent * 100 >= 90 * b.amount THEN 2
                   ELSE IF b.spent * 100 >= 75 * b.amount THEN 3
                   ELSE 4
    IN  /\ Len(callResult) = n
        /\ \A k \in 1..n : callResult[k].priority = Tier(callResult[k].budget)
        /\ \A k \in 1..(n - 1) : callResult[k].priority <= callResult[k + 1].priority
        /\ \E pi \in [1..n -> 1..n] :
             /\ \A i, j \in 1..n : i # j => pi[i] # pi[j]
             /\ \A k \in 1..n : callResult[k].budget = budgets[pi[k]]
             /\ \A i, j \in 1..n :
                  i < j /\ callResult[i].priority = callResult[j].priority => pi[i] < pi[j]

\* three budgets given in the order on track, exceeded, on track: the
\* exceeded one leads and the other two keep their order
C13_Witness ==
  /\ Returned("prioritizeBudgets")
  /\ Len(call.budgets) = 3
  /\ call.budgets[1].id = "b2"
  /\ call.budgets[2].id = "b8"
  /\ call.budgets[3].id = "b1"
  /\ callResult[1].budget.id = "b8"
  /\ callResult[2].budget.id = "b2"
  /\ callResult[3].budget.id = "b1"

\* C14: with fewer than 2 historical months suggestBudgetAdjustment returns
\* the current budget unchanged and the reason 'Insufficient data for
\* adjustment', whatever the current budget and the amount spent.
C14_InsufficientData ==
  Returned("suggestBudgetAdjustment") /\ Len(call.historicalMonths) < 2 =>
    /\ callResult.suggested = call.currentBudget
    /\ callResult.reason = "Insufficient data for adjustment"

\* suggestBudgetAdjustment(1000, 900, [one month of 125]) has returned 1000
C14_Witness ==
  /\ Returned("suggestBudgetAdjustment")
  /\ call.currentBudget = 1000
  /\ call.spent = 900
  /\ call.historicalMonths = <<[expense |-> 125]>>
  /\ callResult.suggested = 1000

\* C15: getDaysRemainingInPeriod never returns a negative number.  It
\* returns max(0, ceil((end - now) in days)) where end is the explicit end
\* date when one is given and otherwise start + 1 day (daily), + 7 days
\* (weekly), + 1 month (monthly), + 1 year (yearly) or start itself (custom);
\* once now is at or past end the result is 0.  (With a date that cannot be
\* read the days are not a number, and so not negative.)
C15_DaysRemaining ==
  Returned("getDaysRemainingInPeriod") =>
    LET start == NewDate(call.startDate)
        end   == IF call.endDate \notin {<<>>, <<"">>} THEN NewDate(call.endDate[1])
                 ELSE IF start = InvalidDate THEN InvalidDate
                 ELSE CASE call.period = "daily"   -> AddMs(start, DayMs)
                        [] call.period = "weekly"  -> AddMs(start, 7 * DayMs)
                        [] call.period = "monthly" -> setMonthPlus(start, 1, call.tz)
                        [] call.period = "yearly"  -> setFullYearPlus(start, 1, call.tz)
                        [] call.period = "custom"  -> start
        atOrPast == \/ call.now.day > end.day
                    \/ call.now.day = end.day /\ call.now.ms >= end.ms
    IN  IF end = InvalidDate THEN callResult = NaN
        ELSE /\ callResult >= 0
             /\ callResult = Max({0, CeilDays(end, call.now)})
             /\ atOrPast <=> callResult = 0

\* a monthly period started on 2024-01-31 ends on 2024-03-02: at noon of the
\* first day 31 days remain
C15_Witness ==
  /\ Returned("getDaysRemainingInPeriod")
  /\ call.period = "monthly"
  /\ call.startDate = "2024-01-31"
  /\ call.endDate = <<>>
  /\ call.now = [day |-> NewDate("2024-01-31").day, ms |-> DayMs \div 2]
  /\ callResult = 31

\* C16: warnIfOnTrackToExceed returns warning = false with the message
\* 'Budget period has ended' if daysRemaining is 0; otherwise, with
\* projected = spent + dailyBudget * daysRemaining, it returns warning = true
\* when projected > totalBudget, else warning = true when
\* projected / totalBudget * 100 > 80, else warning = false with an empty
\* message; the branches are tested in that order.
C16_PaceBranches ==
  Returned("warnIfOnTrackToExceed") =>
    LET days      == call.daysRemaining
        total     == call.totalBudget
        daily     == call.dailyBudget
        \* projected = spent + dailyBudget * daysRemaining is p / daily.den
        p         == call.spent * daily.den + daily.num * days
    IN  IF days = 0
          THEN callResult = [warning |-> FALSE, message |-> "Budget period has ended"]
        ELSE IF days # NaN /\ p > total * daily.den
          THEN /\ callResult.warning = TRUE
               /\ Contains(callResult.message, "exceed budget by")
        ELSE IF days # NaN /\ total > 0 /\ p * 100 > 80 * total * daily.den
          THEN /\ callResult.warning = TRUE
               /\ Contains(callResult.message, "% of budget")
        ELSE callResult = [warning |-> FALSE, message |-> ""]

\* 500 spent and 35 a day for 10 days of a budget of 1000 project 85%
C16_Witness ==
  /\ Returned("warnIfOnTrackToExceed")
  /\ call.spent = 500 * Scale
  /\ call.dailyBudget = Whole(35 * Scale)
  /\ call.daysRemaining = 10
  /\ call.totalBudget = 1000 * Scale
  /\ callResult = [warning |-> TRUE,
                   message |-> "At current pace, you'll use 85% of budget"]

\* C17: calculateFinancialScore starts at 100, subtracts 30 if
\* savingsRate < 15, else subtracts 15 if savingsRate < 25, else adds 10 if
\* savingsRate >= 35; subtracts 10 if expenseVariance > 0.3; subtracts 5 if
\* expenseVariance < -0.2; subtracts 25 if expense > income * 1.1; and
\* returns the result clamped to [0,100], so every score lies in [0,100].
C17_ScoreRule ==
  Returned("calculateFinancialScore") =>
    LET rate     == call.metrics.savingsRate
        variance == call.expenseVariance
        tier     == IF rate # NaN /\ rate < 1500 THEN 0 - 30
                    ELSE IF rate # NaN /\ rate < 2500 THEN 0 - 15
                    ELSE IF rate # NaN /\ rate >= 3500 THEN 10
                    ELSE 0
        high     == IF variance > 30 THEN 0 - 10 ELSE 0
        low      == IF variance < 0 - 20 THEN 0 - 5 ELSE 0
        over     == IF 10 * call.metrics.expense > 11 * call.metrics.income
                      THEN 0 - 25 ELSE 0
        raw      == 100 + tier + high + low + over
    IN  /\ callResult = Max({0, Min({100, raw})})
        /\ callResult \in 0..100

\* a savings rate of 35 with nothing to deduct scores 110, returned as 100
C17_Witness ==
  /\ Returned("calculateFinancialScore")
  /\ call.metrics.savingsRate = 3500
  /\ call.expenseVariance = 0
  /\ call.metrics.income = 1000 * Scale
  /\ call.metrics.expense = 500 * Scale
  /\ callResult = 100

\* C18: generateFinancialReport returns topCategories holding at most 5
\* entries, namely the categories of categorySpending with the largest
\* amounts, in non-increasing order of amount, each with percentage =
\* amount / totalExpense * 100.
C18_TopCategories ==
  Returned("generateFinancialReport") =>
    LET top     == callResult.topCategories
        entries == call.categorySpending
        total   == call.totalExpense
        chosen  == {i \in 1..Len(entries) :
                      \E k \in 1..Len(top) : top[k].category = entries[i][1]}
    IN  /\ Len(top) = Min({5, Len(entries)})
        /\ Cardinality(chosen) = Len(top)
        /\ \A k \in 1..Len(top) :
             \E i \in chosen : /\ entries[i][1] = top[k].category
                               /\ entries[i][2] = top[k].amount
        /\ \A i \in chosen : \A j \in (1..Len(entries)) \ chosen :
             entries[i][2] >= entries[j][2]
        /\ \A k \in 1..(Len(top) - 1) : top[k].amount >= top[k + 1].amount
        /\ \A k \in 1..Len(top) :
             IF total = 0 THEN top[k].percentage = Infinity
             ELSE top[k].percentage = (top[k].amount * 100 * Scale) \div total

\* of six categories the three of 300 lead, in their input order, followed
\* by the first two of 100; the sixth is dropped
C18_Witness ==
  /\ Returned("generateFinancialReport")
  /\ call.totalExpense = 1000 * Scale
  /\ call.categorySpending =
       <<<<"Food", 100 * Scale>>, <<"Rent", 300 * Scale>>, <<"Travel", 100 * Scale>>,
         <<"Fun", 300 * Scale>>, <<"Health", 100 * Scale>>, <<"Bills", 300 * Scale>>>>
  /\ callResult.topCategories =
       <<[category |-> "Rent", amount |-> 300 * Scale, percentage |-> 30 * Scale],
         [category |-> "Fun", amount |-> 300 * Scale, percentage |-> 30 * Scale],
         [category |-> "Bills", amount |-> 300 * Scale, percentage |-> 30 * Scale],
         [category |-> "Food", amount |-> 100 * Scale, percentage |-> 10 * Scale],
         [category |-> "Travel", amount |-> 100 * Scale, percentage |-> 10 * Scale]>>

RECURSIVE SumPercentages(_)
SumPercentages(top) ==
  IF top = <<>> THEN 0 ELSE Head(top).percentage + SumPercentages(Tail(top))

\* C19: for every input of generateFinancialReport with non-negative
\* category amounts, the percentages of the returned topCategories sum to at
\* most 100.
C19_PercentagesSumTo100 ==
  Returned("generateFinancialReport") =>
    /\ \A k \in 1..Len(callResult.topCategories) :
         callResult.topCategories[k].percentage \notin {NaN, Infinity}
    /\ SumPercentages(callResult.topCategories) <= 100 * Scale

\* C20: the riskFactors of a report contain, in this order and each iff its
\* condition holds: the deficit-spending flag iff current savings < 0; the
\* sharp-expense-increase flag iff (current expense - previous expense) > 20%
\* of previous expense; the zero-savings-rate flag iff the current savings
\* rate is zero or negative; the expenses-significantly-exceed-income flag
\* iff current expense > 1.2 * current income.
C20_RiskFactors ==
  Returned("generateFinancialReport") =>
    LET current  == call.currentMonth
        previous == call.previousMonth
        flag(condition, text) == IF condition THEN <<text>> ELSE <<>>
    IN  callResult.riskFactors =
          flag(current.savings < 0, DeficitSpending)
            \o flag((current.expense - previous.expense) * 100 > 20 * previous.expense,
                    SharpIncrease)
            \o flag(current.savingsRate <= 0, ZeroSavingsRate)
            \o flag(current.expense * 10 > 12 * current.income, ExpensesExceedIncome)

\* C21: the recommendations of a report always end with the
\* subscription-review reminder (so the list is never empty and has at most
\* 5 items), preceded, in this order and each iff its condition holds, by:
\* the top-category warning iff a top category exists with percentage > 30;
\* the rising-expense warning iff current expense > previous expense; the
\* low-savings advice iff savingsRate < 20; the emergency-fund advice iff
\* income < 50000.
C21_Recommendations ==
  Returned("generateFinancialReport") =>
    LET recs     == callResult.recommendations
        top      == callResult.topCategories
        current  == call.currentMonth
        previous == call.previousMonth
        hasTop   == \E k \in 1..Len(top) : top[k].percentage > 30 * Scale
        rest     == IF hasTop THEN Tail(recs) ELSE recs
        flag(condition, text) == IF condition THEN <<text>> ELSE <<>>
    IN  /\ Len(recs) \in 1..5
        /\ recs[Len(recs)] =
             "Review subscriptions and recurring expenses monthly to eliminate unused services."
        /\ hasTop <=> Contains(recs[1], "Your top spending category (")
        /\ rest =
             flag(current.expense > previous.expense,
                  "Your monthly expenses are increasing. Review recent transactions to identify unnecessary spending patterns.")
               \o flag(current.savingsRate < 20 * Scale,
                       "Aim to save at least 20% of your income. Start by tracking and reducing discretionary spending.")
               \o flag(current.income < 50000 * Scale,
                       "Consider building a 3-month emergency fund as a priority before major investments.")
               \o <<"Review subscriptions and recurring expenses monthly to eliminate unused services.">>

\* an income of 60000 saved at 50% with falling expenses and a top category
\* of 30% leaves the reminder alone
C21_Witness ==
  /\ Returned("generateFinancialReport")
  /\ call.currentMonth.income = 60000 * Scale
  /\ call.previousMonth.expense > call.currentMonth.expense
  /\ Len(callResult.topCategories) = 5
  /\ callResult.topCategories[1].percentage = 30 * Scale
  /\ Len(callResult.recommendations) = 1

\* C22: predictFutureSpending returns the all-zero metrics for an empty
\* list; for a non-empty list it returns income = mean income of all months,
\* expense = mean expense * (1 + trend * 0.5) where trend is the relative
\* change of expense from the first to the last of the last up-to-3 months (0
\* when only one month is supplied), savings = income - expense, and
\* savingsRate = savings / income * 100, or 0 when the predicted income is 0.
C22_Prediction ==
  Returned("predictFutureSpending") =>
    LET months == call.monthlyData
        n      == Len(months)
        first  == months[IF n > 3 THEN n - 2 ELSE 1].expense
        last   == months[n].expense
        r      == callResult
    IN  IF n = 0
          THEN r = [income |-> Whole(0), expense |-> Whole(0), savings |-> Whole(0),
                    savingsRate |-> Whole(0)]
        ELSE /\ r.income.den > 0 /\ r.income.num * n = SumIncome(months) * r.income.den
             /\ IF n = 1
                  THEN r.expense.den > 0
                       /\ r.expense.num * n = SumExpense(months) * r.expense.den
                ELSE IF first > 0
                  THEN r.expense.den > 0
                       /\ r.expense.num * n * 2 * first
                            = SumExpense(months) * (first + last) * r.expense.den
                ELSE r.expense = [num |-> Sign(last), den |-> 0]
             /\ r.savings = FracSub(r.income, r.expense)
             /\ r.savingsRate =
                  IF r.income = Whole(0) THEN Whole(0)
                  ELSE FracMul(FracDiv(r.savings, r.income), Whole(100 * Scale))

\* of four months with expenses 10, 20, 15 and 20 the trend is taken from the
\* last three (0), not from the first month (+100%): the mean 16.25 is
\* predicted unchanged
C22_Witness ==
  /\ Returned("predictFutureSpending")
  /\ call.monthlyData =
       <<Metrics(20, 10, 5000), Metrics(20, 20, 0), Metrics(40, 15, 6250),
         Metrics(20, 20, 0)>>
  /\ callResult.income = Whole(25 * Scale)
  /\ callResult.expense = Whole(1625)
  /\ callResult.savings = Whole(875)
  /\ callResult.savingsRate = Whole(35 * Scale)

\* C29: when dailyBudget is the value estimateDailyBudget yields for the
\* same totalBudget and daysRemaining, totalBudget > 0 and spent >= 0,
\* warnIfOnTrackToExceed returns warning = true whenever daysRemaining > 0
\* (projected = spent + totalBudget); warning = false is returned only when
\* daysRemaining is 0.
C29_EstimatedPaceWarns ==
  LET days  == call.daysRemaining
      total == call.totalBudget
  IN  /\ Returned("warnIfOnTrackToExceed")
      /\ days # NaN
      /\ total > 0
      /\ call.spent >= 0
      /\ call.dailyBudget = (IF days = 0 THEN Whole(0) ELSE Fraction(total, days))
      => /\ days > 0 => callResult.warning = TRUE
         /\ callResult.warning = FALSE => days = 0

\* nothing spent and a budget of 1000 spread over 3 days projects exactly the
\* budget
C29_Witness ==
  /\ Returned("warnIfOnTrackToExceed")
  /\ call.spent = 0
  /\ call.daysRemaining = 3
  /\ call.totalBudget = 1000 * Scale
  /\ call.dailyBudget = Fraction(1000 * Scale, 3)
  /\ callResult = [warning |-> TRUE,
                   message |-> "At current pace, you'll use 100% of budget"]

\* C23: degenerate numeric inputs are guarded so that no undefined or
\* infinite value reaches a returned value or message: a budget with amount 0
\* (calculateBudgetPercentage, warnIfOnTrackToExceed with totalBudget 0) and
\* a period with 0 days remaining (estimateDailyBudget,
\* warnIfOnTrackToExceed) each yield a defined fallback value (0 or a fixed
\* message).
C23_DegenerateGuarded ==
  /\ Returned("calculateBudgetPercentage") /\ call.budget.amount = 0 =>
       callResult \notin {NaN, Infinity}
  /\ Returned("warnIfOnTrackToExceed") /\ call.totalBudget = 0 =>
       /\ ~Contains(callResult.message, "Infinity")
       /\ ~Contains(callResult.message, "NaN")
  /\ Returned("warnIfOnTrackToExceed") /\ call.daysRemaining = 0 =>
       callResult = [warning |-> FALSE, message |-> "Budget period has ended"]
  /\ Returned("estimateDailyBudget")
       /\ getDaysRemainingInPeriod(call.period, call.startDate, call.endDate,
                                   call.now, call.tz) = 0 =>
       callResult = Whole(0)

\* the entries of a scan recorded as success
ScanSuccesses(entries) == {i \in 1..Len(entries) : entries[i].status = "success"}

\* C26: handleScanReceipts records exactly one result per selected file, in
\* file order; a transaction row is inserted only for a file whose receipt
\* row was saved; the balance of the account is decreased by the parsed
\* amount once for each file recorded as success and not changed for a file
\* recorded as error; an error on one file does not stop the following
\* files.
C26_ScanOutcomes ==
  /\ \A i \in 1..Len(transactions) :
       transactions[i].source = "ocr" =>
         \E j \in 1..Len(receipts) : receipts[j].id = transactions[i].receipt_id
  /\ scanner.exit = "normal" =>
       /\ Len(scanner.results) = Len(scanner.files)
       /\ \A i \in 1..Len(scanner.results) :
            /\ scanner.results[i].file = scanner.files[i]
            /\ scanner.results[i].status \in {"success", "error"}
       /\ balance[scanner.defaultAccountId] =
            balanceAtStart[scanner.defaultAccountId]
              - Cardinality(ScanSuccesses(scanner.results)) * 250 * Scale

\* C24: the balance writes to an account are serialized: a second import or
\* scan run of the user does not start while one is in progress, the
\* read-then-write of the balance done by one run is never interleaved with
\* a balance write of another run, and so no balance update is lost.
C24_BalanceWritesSerialized ==
  /\ ~(loading /\ scanner.loading)
  /\ pc = "updateBalance" =>
       newBalance = NewBalance(balance[defaultAccountId], parsed)
  /\ scanner.pc = "updateBalance" =>
       scanner.newBalance =
         BalanceAfterReceipt(balance[scanner.defaultAccountId], scanner.parsed)

\* C25: with at least 2 historical months suggestBudgetAdjustment returns
\* suggested = ceil(mean historical expense * 1.1), whatever currentBudget
\* and spent; the trend (last - first) / first is computed only with at
\* least 3 months and is 0 with exactly 2; the reason is the 'increasing'
\* text iff trend > 0.2, the 'decreasing' text iff trend < -0.2 and the
\* 'average with 10% buffer' text otherwise, so with exactly 2 months it is
\* the buffer text.
C25_SuggestedFromAverage ==
  Returned("suggestBudgetAdjustment") /\ Len(call.historicalMonths) >= 2 =>
    LET h     == call.historicalMonths
        n     == Len(h)
        sum   == SumExpense(h)
        first == h[1].expense
        last  == h[n].expense
        above == n >= 3 /\ (IF first = 0 THEN last > 0 ELSE 5 * (last - first) > first)
        below == n >= 3 /\ first # 0 /\ 5 * (last - first) < 0 - first
    IN  /\ callResult.suggested * 10 * n >= 11 * sum
        /\ (callResult.suggested - 1) * 10 * n < 11 * sum
        /\ callResult.reason =
             IF above
               THEN "Expenses are increasing. Budget adjusted upward to accommodate the trend."
             ELSE IF below
               THEN "Expenses are decreasing. Budget adjusted downward to maintain discipline."
             ELSE "Budget adjusted based on historical spending average with 10% buffer."

\* C27: a message that handleImport classifies as failed (it does not parse)
\* or as duplicate causes no store write: no transaction row is inserted and
\* the balance is neither read nor updated for it; the handler records the
\* outcome and goes on with the next message, the transactions and the
\* balance being what they were.
C27_NoWriteForRejected ==
  [][/\ Loop
     /\ idx <= Len(smsList)
     /\ \/ parseSMSTransaction(smsList[idx], now) = Null
        \/ detectDuplicateTransaction(parseSMSTransaction(smsList[idx], now),
                                      existingTransactions, now)
     => /\ transactions' = transactions
        /\ balance' = balance
        /\ pc' = "loop"
        /\ idx' = idx + 1
        /\ Len(parseResults') = Len(parseResults) + 1
        /\ parseResults'[Len(parseResults')].status \in {"failed", "duplicate"}
        /\ successCount' = successCount
    ]_vars

\* a duplicate and a message that does not parse have been recorded, and the
\* table and the balances are those of the start
C27_Witness ==
  /\ Len(parseResults) = 2
  /\ parseResults[1].status = "duplicate"
  /\ parseResults[2].status = "failed"
  /\ pc = "loop"
  /\ Len(transactions) = rowsAtStart
  /\ balance = balanceAtStart

\* C28: every run of handleImport that sets loading to true sets it back to
\* false, on each path: normal completion, the early return when the user
\* has no active account (no transaction is inserted and no outcome is
\* recorded then), and a persistence call that throws.
C28_LoadingIsReset ==
  /\ loading ~> ~loading
  /\ [](pc = "done" /\ exit \in {"normal", "return", "throw"} => ~loading)
  /\ [](exit = "return" =>
          /\ transactions = SubSeq(transactions, 1, rowsAtStart)
          /\ Len(transactions) = rowsAtStart
          /\ balance = balanceAtStart
          /\ results = <<>>
          /\ parseResults = <<>>
          /\ imported = 0)

\* a run on a non-empty batch has left by the early return, with loading
\* false again
C28_Witness ==
  /\ hasUser
  /\ Len(smsList) > 0
  /\ pc = "done"
  /\ exit = "return"
  /\ activeAccounts = <<>>
  /\ ~loading

\* C30: calculateFinancialScore never returns less than 35: the deductions
\* for expenseVariance > 0.3 and for expenseVariance < -0.2 never both
\* apply, so the largest total deduction is 30 + 10 + 25 and the lower clamp
\* at 0 is not reached; and 100 is returned iff the deductions do not exceed
\* the bonus of 10 for savingsRate >= 35 (which cancels the 10 points of the
\* variance deduction).
C30_ScoreAtLeast35 ==
  Returned("calculateFinancialScore") =>
    LET rate      == call.metrics.savingsRate
        variance  == call.expenseVariance
        deduction == (IF rate # NaN /\ rate < 1500 THEN 30
                      ELSE IF rate # NaN /\ rate < 2500 THEN 15 ELSE 0)
                     + (IF variance > 30 THEN 10 ELSE 0)
                     + (IF variance < 0 - 20 THEN 5 ELSE 0)
                     + (IF 10 * call.metrics.expense > 11 * call.metrics.income
                          THEN 25 ELSE 0)
        bonus     == IF rate # NaN /\ rate >= 3500 THEN 10 ELSE 0
    IN  /\ callResult >= 35
        /\ deduction <= 30 + 10 + 25
        /\ callResult = 100 <=> deduction <= bonus
        /\ callResult < 100 => callResult = 100 + bonus - deduction

\* the lowest score: a savings rate below 15, a variance above 0.3 and an
\* expense above 1.1 times the income
C30_Witness ==
  /\ Returned("calculateFinancialScore")
  /\ call.metrics.savingsRate = 0
  /\ call.expenseVariance = 31
  /\ call.metrics.income = 1000 * Scale
  /\ call.metrics.expense = 1101 * Scale
  /\ callResult = 35

====
